---- MODULE Spec2Model ----
(***************************************************************************)
(* Model of the per-symbol trading decision engine:                        *)
(*   - BtcLongFsmService        (long runner, symbol BTCUSDT_LONG)          *)
(*   - ZerodhaTickRunnerService (broker-6 runner, one FSM per token)        *)
(*   - TickFsmStateService      (shared FSM snapshot, a BehaviorSubject)    *)
(*   - WebhookStateService      (signal tracker, paper and live trades)     *)
(*   - HistoryBtcSchedulerService.runSnapshotAndClear (daily reset)         *)
(* Time is the wall clock in milliseconds; every handler runs to           *)
(* completion at one instant (single-threaded, synchronous rxjs chains).    *)
(***************************************************************************)
EXTENDS Integers, Sequences, FiniteSets, TLC

\* ------------------------------------------------------------------ bounds
\* last wall-clock minute the clock may reach
MaxMinute == 1
\* number of webhooks delivered in one behaviour
MaxWebhooks == 3
\* number of resets (daily reset or reset-all) in one behaviour
MaxResets == 1
\* number of price events (exchange prices and broker ticks) in one behaviour
MaxTicks == 4
\* number of events (webhooks, price events and resets) in one behaviour
MaxEvents == 6
\* the same three counts for a longer behaviour of the broker feed alone
SessionMaxWebhooks == 4
SessionMaxTicks == 6
SessionMaxEvents == 10
\* the counts of a behaviour that also follows the signal tables, their
\* subscribers and the stored documents
TableMaxWebhooks == 2
TableMaxTicks == 1
TableMaxEvents == 3
StorageMaxEvents == 2
\* the webhooks of a behaviour that fills a symbol's row list beyond its cap
RowCapMaxWebhooks == 52
\* the counts of a behaviour in which the page is loaded again
RestartMaxWebhooks == 1
RestartMaxTicks == 2
RestartMaxEvents == 4
\* the counts of a behaviour of the long runner alone
LongMaxWebhooks == 2
LongMaxTicks == 4
LongMaxEvents == 6
\* the counts of a behaviour that ends with prices after the daily reset
ResetMaxWebhooks == 2
ResetMaxTicks == 3
ResetMaxEvents == 6

\* ------------------------------------------------------- program constants
MsPerMinute == 60000
MsPerSecond == 1000
DefaultCapital == 100000
LiveExitCost == 50
DefaultLot == 1
\* delay of the debounced save, ms
PersistDelay == 1000
\* rows kept per symbol in a signal table
MaxSignalRows == 50

\* --------------------------------------------------------- input universes
LongSymbol == "BTCUSDT_LONG"
BtcWebhookSymbol == "BTCUSDT"
BrokerSymbols == {"NIFTY"}
Symbols == {LongSymbol} \cup BrokerSymbols
\* prices a tick can carry (0 is a number and passes the typeof checks)
Prices == {0, 99, 101, 102}
\* stop prices a webhook can carry
StopPrices == {100}
\* seconds of a minute at which the clock is observed
SecondsOfInterest == {0, 30}
\* in the longer behaviour of the broker feed the clock is observed on the minute
SessionSeconds == {0}
\* the feeds: the exchange price stream (BTCUSDT) and the broker tick stream
Feeds == {"binance", "zerodha"}
\* the absent value of a nullable number (all real values are >= 0)
Null == -1

VARIABLES
  now,          \* wall clock, ms since the epoch
  longFsm,      \* BtcLongFsmService.fsm
  longLastLtp,  \* BtcLongFsmService.lastLtp
  tickState,    \* ZerodhaTickRunnerService scan state {fsmByToken, latestLtpByToken}
  fsmSubject,   \* TickFsmStateService.subject value: [keys (insertion order), map]
  tradeState,   \* WebhookStateService.tradeState$ value
  inst,         \* WebhookStateService private maps (blocks, minute memo, broker-6 counters)
  zerodhaTracking, \* signalStateByMode.get('zerodha6').fsmBySymbol
  noneTracking, \* signalStateByMode.get('none').fsmBySymbol
  sink,         \* calls of sendLiveOrder made by the last handler
  hist,         \* history bookkeeping of what the handlers did (observation only)
  webhooks,     \* number of webhooks delivered so far
  resets,       \* number of resets run so far
  ticks,        \* number of price events delivered so far
  feed,         \* the market-data feed that is connected in this behaviour
  limits,       \* how many events of each kind this behaviour may hold, the
                \* seconds at which its clock is observed, and whether it follows
                \* the signal tables, their subscribers and the stored documents
  signalStateByMode, \* per mode: bySymbol (rows, newest first) and symbols of the
                \* mode's BehaviorSubject value
  subscriptions, \* per subscriber of signalState$(mode): the mode and the value
                \* it received last
  emissions,    \* the subject.next calls on signal subjects made by the last handler
  persist       \* per service: persistTimeout (due time) and the stored document

vars == <<now, longFsm, longLastLtp, tickState, fsmSubject, tradeState, inst,
          zerodhaTracking, noneTracking, sink, hist, webhooks, resets, ticks, feed, limits,
          signalStateByMode, subscriptions, emissions, persist>>

tableVars == <<signalStateByMode, subscriptions, emissions, persist>>

\* ------------------------------------------------------------ Map helpers
EmptyMap == [x \in {} |-> 0]
Has(m, k) == k \in DOMAIN m
Get(m, k, d) == IF k \in DOMAIN m THEN m[k] ELSE d
Put(m, k, v) == [x \in (DOMAIN m) \cup {k} |-> IF x = k THEN v ELSE m[x]]
Del(m, k) == [x \in (DOMAIN m) \ {k} |-> m[x]]
DelAll(m, S) == [x \in (DOMAIN m) \ S |-> m[x]]

\* ------------------------------------------------------------------ clock
MinuteOf(ms) == ms \div MsPerMinute
SecondsOf(ms) == (ms % MsPerMinute) \div MsPerSecond
InstantsAt(seconds) ==
  {m * MsPerMinute + s * MsPerSecond : m \in 0..MaxMinute, s \in seconds}
Instants == InstantsAt(SecondsOfInterest)

\* ------------------------------------------------------- FSM (both runners)
defaultFsm ==
  [state |-> "NOSIGNAL", threshold |-> Null, savedBUYThreshold |-> Null,
   lastBUYThreshold |-> Null, lastSELLThreshold |-> Null,
   lastSignalAtMs |-> Null, lastCheckedAtMs |-> Null, lastBlockedAtMs |-> Null]

isPositionState(state) == state \in {"BUYPOSITION", "SELLPOSITION"}

\* a re-check test that accepts the minute of the block (used to test the
\* sensitivity of C14)
isFirstSecondFromBlockMinute(anchorAtMs, tickAtMs) ==
  IF anchorAtMs = Null THEN FALSE
  ELSE IF MinuteOf(tickAtMs) < MinuteOf(anchorAtMs) THEN FALSE
  ELSE SecondsOf(tickAtMs) = 0

\* a re-check test that forgets the second (used to test the sensitivity of C13)
isAnySecondNextMinute(anchorAtMs, tickAtMs) ==
  IF anchorAtMs = Null THEN FALSE
  ELSE MinuteOf(tickAtMs) > MinuteOf(anchorAtMs)

isFirstSecondNextMinute(anchorAtMs, tickAtMs) ==
  IF anchorAtMs = Null THEN FALSE
  ELSE IF MinuteOf(tickAtMs) <= MinuteOf(anchorAtMs) THEN FALSE
  ELSE SecondsOf(tickAtMs) = 0

\* a tick transition that trails the threshold while in position (used to test
\* the sensitivity of C35)
applyTickTransitionTrailing(current, ltp, receivedAt) ==
  IF current.threshold = Null \/ current.lastSignalAtMs = Null \/ ltp = Null THEN current
  ELSE IF current.state = "BUYPOSITION" THEN
    IF ltp >= current.threshold THEN [current EXCEPT !.threshold = ltp]
    ELSE [current EXCEPT !.state = "NOPOSITION_BLOCKED",
                         !.lastCheckedAtMs = receivedAt,
                         !.lastBlockedAtMs = receivedAt]
  ELSE IF current.state = "NOPOSITION_SIGNAL" THEN
    IF current.lastCheckedAtMs # Null /\ current.lastCheckedAtMs >= current.lastSignalAtMs
    THEN current
    ELSE LET nextState == IF ltp > current.threshold THEN "BUYPOSITION"
                          ELSE "NOPOSITION_BLOCKED"
         IN [current EXCEPT !.state = nextState,
                            !.lastCheckedAtMs = receivedAt,
                            !.lastBlockedAtMs =
                               IF nextState = "NOPOSITION_BLOCKED" THEN receivedAt ELSE Null]
  ELSE IF current.state = "NOPOSITION_BLOCKED" THEN
    IF ~isFirstSecondNextMinute(current.lastBlockedAtMs, receivedAt) THEN current
    ELSE LET nextState == IF ltp > current.threshold THEN "BUYPOSITION"
                          ELSE "NOPOSITION_BLOCKED"
         IN [current EXCEPT !.state = nextState,
                            !.lastSignalAtMs = receivedAt,
                            !.lastCheckedAtMs = receivedAt,
                            !.lastBlockedAtMs =
                               IF nextState = "NOPOSITION_BLOCKED" THEN receivedAt ELSE Null]
  ELSE current

\* a tick transition that also enters the position at ltp = threshold (used to
\* test the sensitivity of C33)
applyTickTransitionEnteringAtThreshold(current, ltp, receivedAt) ==
  IF current.threshold = Null \/ current.lastSignalAtMs = Null \/ ltp = Null THEN current
  ELSE IF current.state = "BUYPOSITION" THEN
    IF ltp >= current.threshold THEN current
    ELSE [current EXCEPT !.state = "NOPOSITION_BLOCKED",
                         !.lastCheckedAtMs = receivedAt,
                         !.lastBlockedAtMs = receivedAt]
  ELSE IF current.state = "NOPOSITION_SIGNAL" THEN
    IF current.lastCheckedAtMs # Null /\ current.lastCheckedAtMs >= current.lastSignalAtMs
    THEN current
    ELSE LET nextState == IF ltp >= current.threshold THEN "BUYPOSITION"
                          ELSE "NOPOSITION_BLOCKED"
         IN [current EXCEPT !.state = nextState,
                            !.lastCheckedAtMs = receivedAt,
                            !.lastBlockedAtMs =
                               IF nextState = "NOPOSITION_BLOCKED" THEN receivedAt ELSE Null]
  ELSE IF current.state = "NOPOSITION_BLOCKED" THEN
    IF ~isFirstSecondNextMinute(current.lastBlockedAtMs, receivedAt) THEN current
    ELSE LET nextState == IF ltp > current.threshold THEN "BUYPOSITION"
                          ELSE "NOPOSITION_BLOCKED"
         IN [current EXCEPT !.state = nextState,
                            !.lastSignalAtMs = receivedAt,
                            !.lastCheckedAtMs = receivedAt,
                            !.lastBlockedAtMs =
                               IF nextState = "NOPOSITION_BLOCKED" THEN receivedAt ELSE Null]
  ELSE current

\* applyTickTransition is the same code in both runners
applyTickTransition(current, ltp, receivedAt) ==
  IF current.threshold = Null \/ current.lastSignalAtMs = Null \/ ltp = Null THEN current
  ELSE IF current.state = "BUYPOSITION" THEN
    IF ltp >= current.threshold THEN current
    ELSE [current EXCEPT !.state = "NOPOSITION_BLOCKED",
                         !.lastCheckedAtMs = receivedAt,
                         !.lastBlockedAtMs = receivedAt]
  ELSE IF current.state = "NOPOSITION_SIGNAL" THEN
    IF current.lastCheckedAtMs # Null /\ current.lastCheckedAtMs >= current.lastSignalAtMs
    THEN current
    ELSE LET nextState == IF ltp > current.threshold THEN "BUYPOSITION"
                          ELSE "NOPOSITION_BLOCKED"
         IN [current EXCEPT !.state = nextState,
                            !.lastCheckedAtMs = receivedAt,
                            !.lastBlockedAtMs =
                               IF nextState = "NOPOSITION_BLOCKED" THEN receivedAt ELSE Null]
  ELSE IF current.state = "NOPOSITION_BLOCKED" THEN
    IF ~isFirstSecondNextMinute(current.lastBlockedAtMs, receivedAt) THEN current
    ELSE LET nextState == IF ltp > current.threshold THEN "BUYPOSITION"
                          ELSE "NOPOSITION_BLOCKED"
         IN [current EXCEPT !.state = nextState,
                            !.lastSignalAtMs = receivedAt,
                            !.lastCheckedAtMs = receivedAt,
                            !.lastBlockedAtMs =
                               IF nextState = "NOPOSITION_BLOCKED" THEN receivedAt ELSE Null]
  ELSE current

\* BtcLongFsmService.applySignalTransition (stoppx = Null when the payload has none)
longApplySignalTransition(current, signal, stoppx, latestLtp, receivedAt) ==
  IF signal = "BUY" THEN
    [state |-> "NOPOSITION_SIGNAL", threshold |-> stoppx, savedBUYThreshold |-> stoppx,
     lastBUYThreshold |-> stoppx, lastSELLThreshold |-> current.lastSELLThreshold,
     lastSignalAtMs |-> receivedAt, lastCheckedAtMs |-> Null, lastBlockedAtMs |-> Null]
  ELSE
    [state |-> "NOPOSITION_SIGNAL", threshold |-> latestLtp,
     savedBUYThreshold |-> current.savedBUYThreshold,
     lastBUYThreshold |-> current.lastBUYThreshold, lastSELLThreshold |-> latestLtp,
     lastSignalAtMs |-> receivedAt, lastCheckedAtMs |-> Null, lastBlockedAtMs |-> Null]

\* a broker-6 signal transition that re-arms from every state (used to test the
\* sensitivity of C17)
zerodhaApplySignalTransitionRearming(current, signal, stoppx, latestLtp, receivedAt) ==
  [state |-> "NOPOSITION_SIGNAL",
   threshold |-> IF signal = "BUY" THEN stoppx ELSE latestLtp,
   savedBUYThreshold |-> IF signal = "BUY" THEN stoppx ELSE current.savedBUYThreshold,
   lastBUYThreshold |-> IF signal = "BUY" THEN stoppx ELSE current.lastBUYThreshold,
   lastSELLThreshold |-> IF signal = "BUY" THEN current.lastSELLThreshold ELSE latestLtp,
   lastSignalAtMs |-> receivedAt, lastCheckedAtMs |-> Null, lastBlockedAtMs |-> Null]

\* ZerodhaTickRunnerService.applySignalTransition
zerodhaApplySignalTransition(current, signal, stoppx, latestLtp, receivedAt) ==
  IF isPositionState(current.state) THEN
    IF signal = "BUY" THEN
      LET threshold == IF stoppx # Null THEN stoppx ELSE current.threshold
      IN [current EXCEPT !.threshold = threshold, !.savedBUYThreshold = threshold,
                         !.lastBUYThreshold = threshold, !.lastSignalAtMs = receivedAt]
    ELSE
      LET threshold == IF latestLtp # Null THEN latestLtp ELSE current.threshold
      IN [current EXCEPT !.threshold = threshold, !.lastSELLThreshold = threshold,
                         !.lastSignalAtMs = receivedAt]
  ELSE longApplySignalTransition(current, signal, stoppx, latestLtp, receivedAt)

\* ------------------------------------------------------ instrument catalog
\* /instruments.json as fetched by fetchLotLookup and fetchInstrumentMetaBySymbol:
\* one broker instrument per broker symbol; no entry is keyed BTCUSDT_LONG.
lotLookup == [s \in BrokerSymbols |-> 25]
instrumentMetaBySymbol == [s \in BrokerSymbols |-> [zerodha |-> s, exchange |-> "NFO"]]
getCapitalValue == DefaultCapital

\* ------------------------------------------------------------ trade engine
initialTradeState ==
  [openBySymbol |-> EmptyMap, liveOpenBySymbol |-> EmptyMap,
   tradesBySymbol |-> EmptyMap, liveTradesBySymbol |-> EmptyMap,
   cumulativeBySymbol |-> EmptyMap, liveCumulativeBySymbol |-> EmptyMap,
   lastSnapshotBySymbol |-> EmptyMap]

initialInst ==
  [liveTradeBlockedUntilBySymbol |-> EmptyMap,
   lastLiveEntryMinuteBySymbol |-> EmptyMap,
   lastLiveTradeIdBySymbol |-> EmptyMap,
   zerodhaSellCountAfterBuyBySymbol |-> EmptyMap,
   zerodhaPendingBuySellSellBySymbol |-> {}]

\* observation of the handlers' effects, per symbol, since boot or reset
initialHist ==
  [paperOpens |-> [s \in Symbols |-> 0],      \* paper trades opened
   realizedSince |-> [s \in Symbols |-> 0],   \* realized paper P&L since the last reset
   liveRawSum |-> [s \in Symbols |-> 0],      \* raw live P&L of the closed live trades
   liveCloses |-> [s \in Symbols |-> 0],      \* live trades closed
   liveOpenMinute |-> [s \in Symbols |-> Null], \* minute of the last live OPEN
   liveOpensInMinute |-> [s \in Symbols |-> 0], \* live OPENs in that minute
   lastLiveCloseAt |-> [s \in Symbols |-> Null], \* time of the last live close
   restartedAt |-> Null,                      \* time of the last reload of the page
   events |-> <<>>,                           \* what the last handler did
   reductions |-> 0]                          \* reduceTradeState runs of the last handler

CeilDiv(a, b) == (a + b - 1) \div b

\* a P&L that forgets the quantity (used to test the sensitivity of C11)
calculatePnlPerUnit(symbol, ltp, entryPrice, quantity, lot) ==
  (ltp - entryPrice) * lot

calculatePnl(symbol, ltp, entryPrice, quantity, lot) ==
  LET isShort == symbol = "BTCUSDT_SHORT"
      delta == IF isShort THEN entryPrice - ltp ELSE ltp - entryPrice
  IN delta * quantity * lot

\* rows are newest-first; id is the number in `${symbol}-${Date.now()}` and
\* exit = TRUE stands for the id suffix "-exit"
updateTradeRow(rowsBySymbol, symbol, id, patch) ==
  IF ~Has(rowsBySymbol, symbol) \/ Len(rowsBySymbol[symbol]) = 0 THEN rowsBySymbol
  ELSE Put(rowsBySymbol, symbol,
           [i \in 1..Len(rowsBySymbol[symbol]) |->
              LET row == rowsBySymbol[symbol][i]
              IN IF row.id = id /\ ~row.exit
                 THEN [f \in DOMAIN row |-> IF f \in DOMAIN patch THEN patch[f] ELSE row[f]]
                 ELSE row])

\* a row list that keeps only its newest row (used to test the sensitivity of C8)
prependRowReplacing(rowsBySymbol, symbol, row) ==
  Put(rowsBySymbol, symbol, <<row>>)

prependRow(rowsBySymbol, symbol, row) ==
  Put(rowsBySymbol, symbol, <<row>> \o Get(rowsBySymbol, symbol, <<>>))

shouldEnterLiveTrade(c, symbol, cumulativePnl, unrealizedPnl) ==
  LET blockedUntil == Get(c.inst.liveTradeBlockedUntilBySymbol, symbol, 0)
      combined == unrealizedPnl + cumulativePnl
  IN IF c.now < blockedUntil THEN FALSE
     ELSE combined = 0 \/ combined > 0

isMinuteBoundary(ms) == SecondsOf(ms) = 0

\* the test of shouldEnterOncePerMinute; its write is in enterLiveOncePerMinute
shouldEnterOncePerMinute(c, symbol) ==
  MinuteOf(c.now) # Get(c.inst.lastLiveEntryMinuteBySymbol, symbol, -1)

blockLiveTrade(c, symbol) ==
  [c EXCEPT !.inst.liveTradeBlockedUntilBySymbol =
      Put(@, symbol, (MinuteOf(c.now) + 1) * MsPerMinute)]

sendLiveOrder(c, symbol, trade, action) ==
  LET posted == Has(instrumentMetaBySymbol, symbol)
                /\ instrumentMetaBySymbol[symbol].exchange # "CRYPTO"
      side == IF action = "OPEN" THEN trade.side
              ELSE IF trade.side = "BUY" THEN "SELL" ELSE "BUY"
  IN [c EXCEPT !.sink = Append(@, [symbol |-> symbol, action |-> action, id |-> trade.id,
                                   posted |-> posted, transactionType |-> side,
                                   quantity |-> trade.quantity])]

\* a live close that forgets the exit cost (used to test the sensitivity of C10)
closeLiveTradeOnlyNoCost(r, symbol, openTrade, ltp, unrealized, why) ==
  LET nextCumulative == Get(r.ts.liveCumulativeBySymbol, symbol, 0) + unrealized
      rows1 == updateTradeRow(r.ts.liveTradesBySymbol, symbol, openTrade.id,
                 [currentPrice |-> ltp, unrealizedPnl |-> 0, cumulativePnl |-> nextCumulative])
      exitRow == [id |-> openTrade.id, exit |-> TRUE, entryPrice |-> openTrade.entryPrice,
                  currentPrice |-> ltp, unrealizedPnl |-> unrealized,
                  cumulativePnl |-> nextCumulative, quantity |-> openTrade.quantity]
      top == r.c.depth = 0
  IN [c |-> [r.c EXCEPT
               !.inst.lastLiveTradeIdBySymbol = Del(@, symbol),
               !.hist.liveRawSum[symbol] = IF top THEN @ + unrealized ELSE @,
               !.hist.liveCloses[symbol] = IF top THEN @ + 1 ELSE @,
               !.hist.lastLiveCloseAt[symbol] = r.c.now,
               !.hist.events = Append(@, [type |-> why, symbol |-> symbol,
                                          depth |-> r.c.depth])],
      ts |-> [r.ts EXCEPT
               !.liveCumulativeBySymbol = Put(@, symbol, nextCumulative),
               !.liveTradesBySymbol = prependRow(rows1, symbol, exitRow)]]

\* closeLiveTradeOnly: r = [c, ts]; the live maps are the reduction's local copies
closeLiveTradeOnly(r, symbol, openTrade, ltp, unrealized, why) ==
  LET nextCumulative == Get(r.ts.liveCumulativeBySymbol, symbol, 0) + unrealized - LiveExitCost
      rows1 == updateTradeRow(r.ts.liveTradesBySymbol, symbol, openTrade.id,
                 [currentPrice |-> ltp, unrealizedPnl |-> 0, cumulativePnl |-> nextCumulative])
      exitRow == [id |-> openTrade.id, exit |-> TRUE, entryPrice |-> openTrade.entryPrice,
                  currentPrice |-> ltp, unrealizedPnl |-> unrealized,
                  cumulativePnl |-> nextCumulative, quantity |-> openTrade.quantity]
      top == r.c.depth = 0
  IN [c |-> [r.c EXCEPT
               !.inst.lastLiveTradeIdBySymbol = Del(@, symbol),
               !.hist.liveRawSum[symbol] = IF top THEN @ + unrealized ELSE @,
               !.hist.liveCloses[symbol] = IF top THEN @ + 1 ELSE @,
               !.hist.lastLiveCloseAt[symbol] = r.c.now,
               !.hist.events = Append(@, [type |-> why, symbol |-> symbol,
                                          depth |-> r.c.depth])],
      ts |-> [r.ts EXCEPT
               !.liveCumulativeBySymbol = Put(@, symbol, nextCumulative),
               !.liveTradesBySymbol = prependRow(rows1, symbol, exitRow)]]

\* a cumulative reset that does nothing (used to test the sensitivity of C18)
resetCumulativePnlSkipped(c, symbol) == c

resetCumulativePnl(c, symbol) ==
  LET c1 == [c EXCEPT !.hist.realizedSince[symbol] = 0]
  IN IF ~Has(c.pub.cumulativeBySymbol, symbol) THEN c1
     ELSE [c1 EXCEPT !.pub.cumulativeBySymbol = Put(@, symbol, 0)]

\* TickFsmStateService.update merges the entries into the subject's value
\* (a Map keeps the insertion order of its keys)
mergeSnapshot(store, partial) ==
  [keys |-> store.keys \o SelectSeq(partial.keys, LAMBDA k : ~Has(store.map, k)),
   map |-> [k \in (DOMAIN store.map) \cup (DOMAIN partial.map) |->
              IF Has(partial.map, k) THEN partial.map[k] ELSE store.map[k]]]

singleSnapshot(symbol, data) == [keys |-> <<symbol>>, map |-> Put(EmptyMap, symbol, data)]

RECURSIVE reduceTradeState(_, _), reduceLoop(_, _, _), reduceSymbol(_, _, _)

\* TickFsmStateService.update: subject.next(next) runs the subscriber
\* combineLatest(...).pipe(map(reduceTradeState)).subscribe(tradeState$.next)
\* synchronously, before update returns
fsmStateUpdate(c, partial) ==
  IF Len(partial.keys) = 0 THEN c
  ELSE LET next == mergeSnapshot(c.fsm, partial)
       IN reduceTradeState([c EXCEPT !.fsm = next], next)

\* a rearm that the nested reduction applies once more (used to test the
\* sensitivity of C38)
rearmPendingRepeated(r, symbol, current, isInPosition) ==
  IF /\ symbol \in r.c.inst.zerodhaPendingBuySellSellBySymbol
     /\ ~isInPosition /\ current.lastBUYThreshold # Null /\ current.ltp # Null
     /\ current.ltp < current.lastBUYThreshold
     /\ (current.threshold # current.lastBUYThreshold \/ r.c.depth = 1)
  THEN LET nested == fsmStateUpdate(
                       [r.c EXCEPT !.depth = @ + 1],
                       singleSnapshot(symbol,
                         [current EXCEPT !.threshold = current.lastBUYThreshold]))
           c1 == resetCumulativePnl([nested EXCEPT !.depth = r.c.depth], symbol)
       IN [r EXCEPT !.c =
             [c1 EXCEPT
                !.inst.zerodhaPendingBuySellSellBySymbol = @ \ {symbol},
                !.inst.zerodhaSellCountAfterBuyBySymbol = Put(@, symbol, 0),
                !.hist.events = Append(@, [type |-> "REARM", symbol |-> symbol,
                                           depth |-> r.c.depth])]]
  ELSE r

\* lines 461-475: the pending broker-6 buy-sell-sell rearm
rearmPending(r, symbol, current, isInPosition) ==
  IF /\ symbol \in r.c.inst.zerodhaPendingBuySellSellBySymbol
     /\ ~isInPosition /\ current.lastBUYThreshold # Null /\ current.ltp # Null
     /\ current.ltp < current.lastBUYThreshold
     /\ current.threshold # current.lastBUYThreshold
  THEN LET nested == fsmStateUpdate(
                       [r.c EXCEPT !.depth = @ + 1],
                       singleSnapshot(symbol,
                         [current EXCEPT !.threshold = current.lastBUYThreshold]))
           c1 == resetCumulativePnl([nested EXCEPT !.depth = r.c.depth], symbol)
       IN [r EXCEPT !.c =
             [c1 EXCEPT
                !.inst.zerodhaPendingBuySellSellBySymbol = @ \ {symbol},
                !.inst.zerodhaSellCountAfterBuyBySymbol = Put(@, symbol, 0),
                !.hist.events = Append(@, [type |-> "REARM", symbol |-> symbol,
                                           depth |-> r.c.depth])]]
  ELSE r

\* lines 477-503: paper entry on the entering edge
enterPaper(r, symbol, current, isEntering) ==
  IF isEntering /\ ~Has(r.ts.openBySymbol, symbol) THEN
    LET ltp == current.ltp
        lot == Get(lotLookup, symbol, DefaultLot)
        quantity == CeilDiv(getCapitalValue, lot * ltp)
        side == IF current.state = "SELLPOSITION" THEN "SELL" ELSE "BUY"
        openTrade == [id |-> r.c.now, side |-> side, entryPrice |-> ltp,
                      quantity |-> quantity, lot |-> lot]
        row == [id |-> r.c.now, exit |-> FALSE, entryPrice |-> ltp, currentPrice |-> ltp,
                unrealizedPnl |-> 0,
                cumulativePnl |-> Get(r.ts.cumulativeBySymbol, symbol, 0),
                quantity |-> quantity]
    IN [c |-> [r.c EXCEPT
                 !.hist.paperOpens[symbol] = IF r.c.depth = 0 THEN @ + 1 ELSE @,
                 !.hist.events = Append(@, [type |-> "PAPER_OPEN", symbol |-> symbol,
                                            depth |-> r.c.depth])],
        ts |-> [r.ts EXCEPT !.openBySymbol = Put(@, symbol, openTrade),
                            !.tradesBySymbol = prependRow(@, symbol, row)]]
  ELSE r

\* lines 541-550: live entry; liveCumulative is read for the entry row
enterLive(r, symbol, openTrade, ltp) ==
  LET liveTrade == [id |-> r.c.now, side |-> openTrade.side, entryPrice |-> ltp,
                    quantity |-> openTrade.quantity, lot |-> openTrade.lot]
      row == [id |-> r.c.now, exit |-> FALSE, entryPrice |-> ltp, currentPrice |-> ltp,
              unrealizedPnl |-> 0,
              cumulativePnl |-> Get(r.ts.liveCumulativeBySymbol, symbol, 0),
              quantity |-> openTrade.quantity]
      minute == MinuteOf(r.c.now)
      sameMinute == r.c.hist.liveOpenMinute[symbol] = minute
      c1 == [r.c EXCEPT
               !.inst.lastLiveEntryMinuteBySymbol = Put(@, symbol, minute),
               !.inst.lastLiveTradeIdBySymbol = Put(@, symbol, liveTrade.id),
               !.hist.liveOpenMinute[symbol] = minute,
               !.hist.liveOpensInMinute[symbol] = IF sameMinute THEN @ + 1 ELSE 1,
               !.hist.events = Append(@, [type |-> "LIVE_OPEN", symbol |-> symbol,
                                          depth |-> r.c.depth])]
  IN [c |-> sendLiveOrder(c1, symbol, liveTrade, "OPEN"),
      ts |-> [r.ts EXCEPT !.liveOpenBySymbol = Put(@, symbol, liveTrade),
                          !.liveTradesBySymbol = prependRow(@, symbol, row)]]

\* lines 505-562: while in position with a paper trade open
whileInPosition(r, symbol, current, isInPosition, isEntering) ==
  IF Has(r.ts.openBySymbol, symbol) /\ isInPosition THEN
    LET ltp == current.ltp
        openTrade == r.ts.openBySymbol[symbol]
        paperUnrealized == calculatePnl(symbol, ltp, openTrade.entryPrice,
                                        openTrade.quantity, openTrade.lot)
        cumulative == Get(r.ts.cumulativeBySymbol, symbol, 0)
        r1 == [r EXCEPT !.ts.tradesBySymbol =
                 updateTradeRow(@, symbol, openTrade.id,
                   [currentPrice |-> ltp, unrealizedPnl |-> paperUnrealized])]
    IN IF Has(r1.ts.liveOpenBySymbol, symbol) THEN
         LET liveOpenTrade == r1.ts.liveOpenBySymbol[symbol]
             liveUnrealized == calculatePnl(symbol, ltp, liveOpenTrade.entryPrice,
                                            liveOpenTrade.quantity, liveOpenTrade.lot)
         IN IF paperUnrealized + cumulative < 0 THEN
              LET r2 == closeLiveTradeOnly(r1, symbol, liveOpenTrade, ltp, liveUnrealized,
                                           "LIVE_FORCED_CLOSE")
                  r3 == [r2 EXCEPT !.ts.liveOpenBySymbol = Del(@, symbol),
                                   !.c = blockLiveTrade(r2.c, symbol)]
              IN [r3 EXCEPT !.c = sendLiveOrder(r3.c, symbol, liveOpenTrade, "CLOSE")]
            ELSE [r1 EXCEPT !.ts.liveTradesBySymbol =
                    updateTradeRow(@, symbol, liveOpenTrade.id,
                      [currentPrice |-> ltp, unrealizedPnl |-> liveUnrealized])]
       ELSE IF shouldEnterLiveTrade(r1.c, symbol, cumulative, paperUnrealized) THEN
         IF (isEntering \/ isMinuteBoundary(r1.c.now)) /\ shouldEnterOncePerMinute(r1.c, symbol)
         THEN enterLive(r1, symbol, openTrade, ltp)
         ELSE r1
       ELSE r1
  ELSE r

\* a paper exit that forgets the live trade (used to test the sensitivity of C1)
exitPaperKeepsLive(r, symbol, current, isExiting, openAt505, liveAt506) ==
  IF Has(openAt505, symbol) /\ isExiting
  THEN [r EXCEPT !.ts.openBySymbol = Del(@, symbol)]
  ELSE r

\* lines 564-608: paper exit on the exiting edge; openTrade and liveOpenTrade are
\* the values read at lines 505-506, before the in-position block ran
exitPaper(r, symbol, current, isExiting, openAt505, liveAt506) ==
  IF Has(openAt505, symbol) /\ isExiting THEN
    LET ltp == current.ltp
        openTrade == openAt505[symbol]
        realized == calculatePnl(symbol, ltp, openTrade.entryPrice,
                                 openTrade.quantity, openTrade.lot)
        cumulative == Get(r.ts.cumulativeBySymbol, symbol, 0) + realized
        rows1 == updateTradeRow(r.ts.tradesBySymbol, symbol, openTrade.id,
                   [currentPrice |-> ltp, unrealizedPnl |-> 0, cumulativePnl |-> cumulative])
        exitRow == [id |-> openTrade.id, exit |-> TRUE, entryPrice |-> openTrade.entryPrice,
                    currentPrice |-> ltp, unrealizedPnl |-> realized,
                    cumulativePnl |-> cumulative, quantity |-> openTrade.quantity]
        r1 == [c |-> [r.c EXCEPT
                        !.hist.realizedSince[symbol] =
                           IF r.c.depth = 0 THEN @ + realized ELSE @,
                        !.hist.events = Append(@, [type |-> "PAPER_EXIT", symbol |-> symbol,
                                                   depth |-> r.c.depth])],
               ts |-> [r.ts EXCEPT
                        !.cumulativeBySymbol = Put(@, symbol, cumulative),
                        !.tradesBySymbol = prependRow(rows1, symbol, exitRow),
                        !.openBySymbol = Del(@, symbol)]]
    IN IF Has(liveAt506, symbol) THEN
         LET liveOpenTrade == liveAt506[symbol]
             liveUnrealized == calculatePnl(symbol, ltp, liveOpenTrade.entryPrice,
                                            liveOpenTrade.quantity, liveOpenTrade.lot)
             r2 == closeLiveTradeOnly(r1, symbol, liveOpenTrade, ltp, liveUnrealized,
                                      "LIVE_EXIT_CLOSE")
             r3 == [r2 EXCEPT !.ts.liveOpenBySymbol = Del(@, symbol)]
         IN [r3 EXCEPT !.c = sendLiveOrder(r3.c, symbol, liveOpenTrade, "CLOSE")]
       ELSE r1
  ELSE r

\* the body of the loop of reduceTradeState for one entry of the snapshot;
\* r = [c, ts]: c the service and its collaborators, ts the reduction's local maps
reduceSymbol(r, symbol, current) ==
  LET hasPrev == Has(r.ts.lastSnapshotBySymbol, symbol)
      prevState == IF hasPrev THEN r.ts.lastSnapshotBySymbol[symbol].state ELSE "NOSIGNAL"
      r0 == [r EXCEPT !.ts.lastSnapshotBySymbol = Put(@, symbol, current)]
  IN IF current.ltp = Null \/ current.ltp = 0 THEN r0
     ELSE
       LET wasInPosition == isPositionState(prevState)
           isInPosition == isPositionState(current.state)
           isEntering == ~wasInPosition /\ isInPosition
           isExiting == wasInPosition /\ ~isInPosition
           r1 == rearmPending(r0, symbol, current, isInPosition)
           r2 == enterPaper(r1, symbol, current, isEntering)
           r3 == whileInPosition(r2, symbol, current, isInPosition, isEntering)
       IN exitPaper(r3, symbol, current, isExiting, r2.ts.openBySymbol, r2.ts.liveOpenBySymbol)

reduceLoop(r, snapshot, i) ==
  IF i > Len(snapshot.keys) THEN r
  ELSE reduceLoop(reduceSymbol(r, snapshot.keys[i], snapshot.map[snapshot.keys[i]]),
                  snapshot, i + 1)

\* one run of the subscriber: the reduction starts from tradeState$.value and its
\* result is published with tradeState$.next
reduceTradeState(c, snapshot) ==
  LET r == reduceLoop([c |-> c, ts |-> c.pub], snapshot, 1)
  IN [r.c EXCEPT !.pub = r.ts, !.hist.reductions = @ + 1]

\* --------------------------------------------------------- signal tracker
\* String.prototype.toUpperCase and trim on the strings a payload carries
toUpperCase(s) ==
  CASE s = "buy" -> "BUY"
    [] s = " buy " -> " BUY "
    [] OTHER -> s

trim(s) ==
  CASE s = " buy " -> "buy"
    [] s = " BUY " -> "BUY"
    [] OTHER -> s

\* WebhookStateService.normalizeString: null ("" here) for null, undefined and
\* blank values, else the trimmed text
normalizeString(value) == trim(value)

\* WebhookStateService.getSignalType: `${intent ?? side ?? ''}`.toUpperCase()
\* (intent and side are the normalizeString values, "" when absent)
getSignalType(intent, side) ==
  LET candidate == toUpperCase(IF intent # "" THEN intent ELSE side)
  IN IF candidate \in {"BUY", "ENTRY"} THEN "BUY"
     ELSE IF candidate \in {"SELL", "EXIT"} THEN "SELL"
     ELSE "NONE"

\* a signal type that reads every webhook as a BUY (used to test the sensitivity
\* of C16)
runnerGetSignalTypeAlwaysBuy(payload) == "BUY"

\* the runners' getSignalType: intent first, then side
runnerGetSignalType(payload) ==
  IF toUpperCase(payload.intent) \in {"BUY", "ENTRY"} THEN "BUY"
  ELSE IF toUpperCase(payload.intent) \in {"SELL", "EXIT"} THEN "SELL"
  ELSE IF toUpperCase(payload.side) = "BUY" THEN "BUY"
  ELSE IF toUpperCase(payload.side) = "SELL" THEN "SELL"
  ELSE "NONE"

defaultTracking ==
  [lastSignal |-> "NONE", sellAfterBuyCount |-> 0, buyAfterSellCount |-> 0,
   alternateSignal |-> FALSE, buySellSell |-> FALSE, sellBuyBuy |-> FALSE]

\* returns [c, count]
updateZerodhaSellAfterBuyCount(c, symbol, signal, lastSignal) ==
  LET current == Get(c.inst.zerodhaSellCountAfterBuyBySymbol, symbol, 0)
  IN IF signal = "SELL" THEN
       IF lastSignal = "BUY" \/ current > 0
       THEN [c |-> [c EXCEPT !.inst.zerodhaSellCountAfterBuyBySymbol =
                               Put(@, symbol, current + 1)],
             count |-> current + 1]
       ELSE [c |-> c, count |-> current]
     ELSE IF signal = "BUY" THEN
       [c |-> [c EXCEPT !.inst.zerodhaSellCountAfterBuyBySymbol = Put(@, symbol, 0)],
        count |-> 0]
     ELSE [c |-> c, count |-> current]

\* snapshot is the entry of the shared snapshot for the symbol, hasSnapshot FALSE
\* when there is none; returns [c, applied]
applyZerodhaBuySellSell(c, symbol, hasSnapshot, snapshot) ==
  IF \/ symbol \notin c.inst.zerodhaPendingBuySellSellBySymbol
     \/ ~hasSnapshot
  THEN [c |-> c, applied |-> FALSE]
  ELSE IF \/ isPositionState(snapshot.state)
          \/ snapshot.lastBUYThreshold = Null \/ snapshot.ltp = Null
          \/ snapshot.ltp >= snapshot.lastBUYThreshold
  THEN [c |-> c, applied |-> FALSE]
  ELSE LET c1 == fsmStateUpdate(c, singleSnapshot(symbol,
                    [snapshot EXCEPT !.threshold = snapshot.lastBUYThreshold]))
           c2 == resetCumulativePnl(c1, symbol)
       IN [c |-> [c2 EXCEPT
                    !.inst.zerodhaPendingBuySellSellBySymbol = @ \ {symbol},
                    !.inst.zerodhaSellCountAfterBuyBySymbol = Put(@, symbol, 0),
                    !.hist.events = Append(@, [type |-> "REARM", symbol |-> symbol,
                                               depth |-> c.depth])],
            applied |-> TRUE]

\* returns [c, state]: the service after the side effects, and the next tracking
nextZerodhaTracking(c, tracking, signal, symbol, hasSnapshot, snapshot) ==
  LET alternateSignalNow == tracking.lastSignal # "NONE" /\ signal # "NONE"
                            /\ tracking.lastSignal # signal
      c1 == IF alternateSignalNow THEN resetCumulativePnl(c, symbol) ELSE c
      u == updateZerodhaSellAfterBuyCount(c1, symbol, signal, tracking.lastSignal)
      pendingNow == u.count >= 2
      c2 == IF pendingNow
            THEN [u.c EXCEPT !.inst.zerodhaPendingBuySellSellBySymbol = @ \cup {symbol}]
            ELSE u.c
      a == applyZerodhaBuySellSell(c2, symbol, hasSnapshot, snapshot)
      buySellSell == pendingNow /\ ~a.applied
  IN [c |-> a.c,
      state |-> [lastSignal |-> IF signal # "NONE" THEN signal ELSE tracking.lastSignal,
                 sellAfterBuyCount |-> 0, buyAfterSellCount |-> u.count,
                 alternateSignal |-> FALSE, buySellSell |-> buySellSell,
                 sellBuyBuy |-> FALSE]]

\* WebhookStateService.nextTracking (mode 'none'): the next tracking of a symbol
nextTracking(tracking, signal, hasSnapshot, snapshot) ==
  LET alternateSignalNow == tracking.lastSignal # "NONE" /\ signal # "NONE"
                            /\ tracking.lastSignal # signal
      sellAfterBuyCount ==
        IF signal = "SELL"
        THEN (IF tracking.lastSignal = "BUY" THEN tracking.sellAfterBuyCount + 1 ELSE 0)
        ELSE IF signal = "BUY" THEN 0 ELSE tracking.sellAfterBuyCount
      buyAfterSellCount ==
        IF signal = "SELL" THEN 0
        ELSE IF signal = "BUY"
        THEN (IF tracking.lastSignal = "SELL" THEN tracking.buyAfterSellCount + 1 ELSE 0)
        ELSE tracking.buyAfterSellCount
      canUseSnapshot == hasSnapshot /\ snapshot.state = "NOPOSITION_SIGNAL"
                        /\ snapshot.ltp # Null
      buySellSellEligible == /\ signal = "SELL" /\ sellAfterBuyCount >= 2 /\ canUseSnapshot
                             /\ snapshot.lastBUYThreshold # Null
                             /\ snapshot.ltp < snapshot.lastBUYThreshold
      sellBuyBuyEligible == /\ signal = "BUY" /\ buyAfterSellCount >= 2 /\ canUseSnapshot
                            /\ snapshot.lastSELLThreshold # Null
                            /\ snapshot.ltp < snapshot.lastSELLThreshold
  IN [lastSignal |-> IF signal # "NONE" THEN signal ELSE tracking.lastSignal,
      sellAfterBuyCount |-> sellAfterBuyCount, buyAfterSellCount |-> buyAfterSellCount,
      alternateSignal |-> tracking.alternateSignal \/ alternateSignalNow,
      buySellSell |-> tracking.buySellSell \/ buySellSellEligible,
      sellBuyBuy |-> tracking.sellBuyBuy \/ sellBuyBuyEligible]

\* ------------------------------------------------------------ signal tables
\* the modes, in the order of the constructor's loop
Modes == <<"none", "zerodha6", "btc", "btc-long", "btc-short">>
ModeSet == {Modes[i] : i \in DOMAIN Modes}

isBtcMode(mode) == mode \in {"btc", "btc-long", "btc-short"}
isZerodhaMode(mode) == mode = "zerodha6"

isSignalAllowed(mode, signal) ==
  IF mode = "btc-long" THEN signal = "BUY"
  ELSE IF mode = "btc-short" THEN signal = "SELL"
  ELSE TRUE

\* symbolMap maps every catalog symbol to its zerodha symbol, here itself
mapSymbolForMode(symbol, mode) ==
  IF mode = "zerodha6" THEN symbol
  ELSE IF mode = "btc-long" /\ toUpperCase(symbol) \in {"BTCUSDT", "BTCUSD"}
  THEN "BTCUSDT_LONG"
  ELSE IF mode = "btc-short" /\ toUpperCase(symbol) \in {"BTCUSDT", "BTCUSD"}
  THEN "BTCUSDT_SHORT"
  ELSE symbol

\* fetchAllowedSymbolsByMode over the catalog: no filter for mode none, the
\* broker instruments for zerodha6, BTCUSDT for the btc modes (no instrument of
\* the catalog is a BTC instrument)
allowedSymbolsByMode ==
  [mode \in ModeSet |->
     IF mode = "none" THEN [filter |-> FALSE, symbols |-> {}]
     ELSE IF mode = "zerodha6" THEN [filter |-> TRUE, symbols |-> BrokerSymbols]
     ELSE [filter |-> TRUE, symbols |-> {"BTCUSDT"}]]

\* reduceSignalState returns the state it was given (lines 870-893) unless this holds
acceptsWebhook(mode, payload) ==
  LET symbol == mapSymbolForMode(payload.symbol, mode)
      allowed == allowedSymbolsByMode[mode]
      allowedKey == IF isZerodhaMode(mode) THEN symbol ELSE payload.symbol
      signal == getSignalType(normalizeString(payload.intent), normalizeString(payload.side))
  IN /\ symbol # ""
     /\ allowed.filter => allowedKey \in allowed.symbols
     /\ isSignalAllowed(mode, signal)

\* formatIstTime: the date and the time of day in Asia/Kolkata (UTC+05:30), to
\* the second
formatIstTime(ms) ==
  LET t == ms + 19800000
  IN [day |-> t \div 86400000, hour |-> (t % 86400000) \div 3600000,
      minute |-> (t % 3600000) \div MsPerMinute, second |-> SecondsOf(t)]

initialSignalState == [bySymbol |-> EmptyMap, symbols |-> <<>>]

\* the row of one accepted webhook; flags are those of the mode's next tracking
\* (seq, the ordinal of the webhook, is observation only)
signalRow(payload, flags, seq) ==
  [timeIst |-> formatIstTime(now), intent |-> normalizeString(payload.intent),
   stoppx |-> payload.stoppx, alternateSignal |-> flags.alternateSignal,
   buySellSell |-> flags.buySellSell, sellBuyBuy |-> flags.sellBuyBuy, seq |-> seq]

\* a head of the row list that keeps every row (used to test the sensitivity of C30)
sliceRowsUncapped(rows) == rows

\* [nextRow, ...existingRows].slice(0, 50)
sliceRows(rows) ==
  SubSeq(rows, 1, IF Len(rows) < MaxSignalRows THEN Len(rows) ELSE MaxSignalRows)

\* lines 906-920: the rows and the symbols of the next state
addSignalRow(state, symbolKey, nextRow) ==
  [bySymbol |-> Put(state.bySymbol, symbolKey,
                    sliceRows(<<nextRow>> \o Get(state.bySymbol, symbolKey, <<>>))),
   symbols |-> IF \E i \in DOMAIN state.symbols : state.symbols[i] = symbolKey
               THEN state.symbols ELSE Append(state.symbols, symbolKey)]

\* a signal state that exists only while somebody is subscribed to the mode
\* (used to test the sensitivity of C29)
SignalStateOfWhileSubscribed(mode) ==
  IF \E id \in DOMAIN subscriptions : subscriptions[id].mode = mode
  THEN [bySymbol |-> signalStateByMode[mode].bySymbol,
        fsmBySymbol |-> IF mode = "none" THEN noneTracking
                        ELSE IF mode = "zerodha6" THEN zerodhaTracking
                        ELSE [k \in DOMAIN signalStateByMode[mode].bySymbol |-> defaultTracking],
        paperTradesBySymbol |-> EmptyMap,
        symbols |-> signalStateByMode[mode].symbols]
  ELSE [bySymbol |-> EmptyMap, fsmBySymbol |-> EmptyMap, paperTradesBySymbol |-> EmptyMap,
        symbols |-> <<>>]

\* the value of a mode's BehaviorSubject
SignalStateOf(mode) ==
  [bySymbol |-> signalStateByMode[mode].bySymbol,
   fsmBySymbol |-> IF mode = "none" THEN noneTracking
                   ELSE IF mode = "zerodha6" THEN zerodhaTracking
                   ELSE [k \in DOMAIN signalStateByMode[mode].bySymbol |-> defaultTracking],
   paperTradesBySymbol |-> EmptyMap,
   symbols |-> signalStateByMode[mode].symbols]

\* the subject.next calls of a handler that changes the modes of `changed`, in
\* loop order; at each call the modes after it still hold their old value
emissionsOf(changed) ==
  LET order == SelectSeq(Modes, LAMBDA m : m \in changed)
  IN [i \in DOMAIN order |->
        [mode |-> order[i],
         stale |-> {order[j] : j \in (i + 1)..Len(order)},
         to |-> {id \in DOMAIN subscriptions : subscriptions[id].mode = order[i]}]]

\* ------------------------------------------------------------- persistence
\* Array.from(map.entries()) and new Map(entries)
RECURSIVE entriesOf(_)
entriesOf(m) ==
  IF DOMAIN m = {} THEN <<>>
  ELSE LET k == CHOOSE x \in DOMAIN m : TRUE
       IN <<<<k, m[k]>>>> \o entriesOf(Del(m, k))

fromEntries(entries) ==
  [k \in {entries[i][1] : i \in DOMAIN entries} |->
     LET last == CHOOSE i \in DOMAIN entries :
                   /\ entries[i][1] = k
                   /\ \A j \in DOMAIN entries : entries[j][1] = k => j <= i
     IN entries[last][2]]

\* a persisted signal state that leaves out the tracking (used to test the
\* sensitivity of C28)
toPersistedSignalStateRowsOnly(state) ==
  [bySymbol |-> entriesOf(state.bySymbol), fsmBySymbol |-> <<>>,
   paperTradesBySymbol |-> entriesOf(state.paperTradesBySymbol),
   symbols |-> state.symbols]

toPersistedSignalState(state) ==
  [bySymbol |-> entriesOf(state.bySymbol), fsmBySymbol |-> entriesOf(state.fsmBySymbol),
   paperTradesBySymbol |-> entriesOf(state.paperTradesBySymbol),
   symbols |-> state.symbols]

fromPersistedSignalState(state) ==
  [bySymbol |-> fromEntries(state.bySymbol), fsmBySymbol |-> fromEntries(state.fsmBySymbol),
   paperTradesBySymbol |-> fromEntries(state.paperTradesBySymbol),
   symbols |-> state.symbols]

toPersistedTradeState(state) == [f \in DOMAIN state |-> entriesOf(state[f])]

fromPersistedTradeState(state) == [f \in DOMAIN state |-> fromEntries(state[f])]

\* WebhookStateService.saveSnapshot: the document written under persistKey
webhookDocument ==
  [signalStateByMode |-> [mode \in ModeSet |-> toPersistedSignalState(SignalStateOf(mode))],
   tradeState |-> toPersistedTradeState(tradeState)]

\* TickFsmStateService.saveSnapshot: Array.from(this.subject.value.entries())
fsmDocument ==
  [i \in DOMAIN fsmSubject.keys |-> <<fsmSubject.keys[i], fsmSubject.map[fsmSubject.keys[i]]>>]

\* TickFsmStateService.hydrateFromStorage: new Map(snapshot); the entries of a
\* saved Map have distinct keys
fsmFromDocument(entries) ==
  [keys |-> [i \in DOMAIN entries |-> entries[i][1]],
   map |-> fromEntries(entries)]

\* schedulePersist of a service whose timer and document are p
schedulePersist(p) ==
  IF p.timeout # Null THEN p ELSE [p EXCEPT !.timeout = now + PersistDelay]

\* the timers after a handler that ran `reductions` reductions: every emission
\* of the shared snapshot schedules the save of TickFsmStateService and, through
\* the reduction it triggers, the save of WebhookStateService, as does every
\* subject.next on a signal subject
persistAfter(p, reductions, signalsChanged) ==
  [fsm |-> IF reductions > 0 THEN schedulePersist(p.fsm) ELSE p.fsm,
   webhook |-> IF reductions > 0 \/ signalsChanged
               THEN schedulePersist(p.webhook) ELSE p.webhook]

\* per service: the pending timer's due time, the item in localStorage, and for
\* observation whether the last setItem threw and whether a save succeeded after
\* one that threw
initialPersist ==
  [service \in {"fsm", "webhook"} |->
     [timeout |-> Null, document |-> <<>>, stored |-> FALSE,
      threw |-> FALSE, retried |-> FALSE]]

\* ------------------------------------------------------------- handlers
\* the service and its collaborators as a handler finds them
Ctx ==
  [now |-> now, depth |-> 0, pub |-> tradeState, fsm |-> fsmSubject, inst |-> inst,
   sink |-> <<>>, hist |-> [hist EXCEPT !.events = <<>>, !.reductions = 0]]

Commit(c) ==
  /\ tradeState' = c.pub
  /\ fsmSubject' = c.fsm
  /\ inst' = c.inst
  /\ sink' = c.sink
  /\ hist' = c.hist

\* a handler that calls subject.next on the signal subjects of `changed`, seen
\* after its writes to the trackers and to the trade state
SignalSubjectsNext(changed) ==
  /\ emissions' = emissionsOf(changed)
  /\ subscriptions' =
       LET next == [mode \in ModeSet |-> SignalStateOf(mode)']
       IN [id \in DOMAIN subscriptions |->
             IF subscriptions[id].mode \in changed
             THEN [subscriptions[id] EXCEPT !.value = next[subscriptions[id].mode]]
             ELSE subscriptions[id]]

\* the tables after a handler that leaves the signal subjects alone
TablesAfterPrice ==
  IF limits.tables
  THEN /\ persist' = persistAfter(persist, hist'.reductions, FALSE)
       /\ emissions' = <<>>
       /\ UNCHANGED <<signalStateByMode, subscriptions>>
  ELSE UNCHANGED tableVars

\* the tables after the loop over the modes of the webhook$ subscriber
TablesAfterWebhook(payload) ==
  IF limits.tables
  THEN LET changed == {mode \in ModeSet : acceptsWebhook(mode, payload)}
           flags(mode) ==
             IF mode = "none" THEN noneTracking'[payload.symbol]
             ELSE IF mode = "zerodha6" THEN zerodhaTracking'[payload.symbol]
             ELSE defaultTracking
       IN /\ signalStateByMode' =
               [mode \in ModeSet |->
                  IF mode \in changed
                  THEN addSignalRow(signalStateByMode[mode],
                                    mapSymbolForMode(payload.symbol, mode),
                                    signalRow(payload, flags(mode), webhooks + 1))
                  ELSE signalStateByMode[mode]]
          /\ SignalSubjectsNext(changed)
          /\ persist' = persistAfter(persist, hist'.reductions, changed # {})
  ELSE UNCHANGED tableVars

\* the tables after resetBtcState: clearSignals of the three btc modes
TablesAfterReset(p) ==
  IF limits.tables
  THEN /\ signalStateByMode' =
            [mode \in ModeSet |->
               IF isBtcMode(mode) THEN initialSignalState ELSE signalStateByMode[mode]]
       /\ SignalSubjectsNext({mode \in ModeSet : isBtcMode(mode)})
       /\ persist' = persistAfter(p, 1, TRUE)
  ELSE UNCHANGED tableVars

\* BtcLongFsmService.updateSnapshot (the entry carries no lastBlockedAtMs)
longSnapshot(fsm, lastLtp) ==
  singleSnapshot(LongSymbol,
    [state |-> fsm.state, ltp |-> lastLtp, threshold |-> fsm.threshold,
     lastBUYThreshold |-> fsm.lastBUYThreshold, lastSELLThreshold |-> fsm.lastSELLThreshold,
     lastBlockedAtMs |-> Null])

\* ZerodhaTickRunnerService.buildFsmSnapshot: every token that has an FSM
buildFsmSnapshot(state) ==
  [keys |-> state.keys,
   map |-> [k \in DOMAIN state.fsmByToken |->
              [state |-> state.fsmByToken[k].state,
               ltp |-> Get(state.latestLtpByToken, k, Null),
               threshold |-> state.fsmByToken[k].threshold,
               lastBUYThreshold |-> state.fsmByToken[k].lastBUYThreshold,
               lastSELLThreshold |-> state.fsmByToken[k].lastSELLThreshold,
               lastBlockedAtMs |-> state.fsmByToken[k].lastBlockedAtMs]]]

setFsmByToken(state, token, fsm) ==
  [state EXCEPT !.keys = IF Has(state.fsmByToken, token) THEN @ ELSE Append(@, token),
                !.fsmByToken = Put(@, token, fsm)]

\* ZerodhaTickRunnerService.reduceTickState, tick event
reduceTick(state, token, tickLtp, receivedAt) ==
  LET withLtp == [state EXCEPT !.latestLtpByToken = Put(@, token, tickLtp)]
      existing == Get(state.fsmByToken, token, defaultFsm)
  IN setFsmByToken(withLtp, token, applyTickTransition(existing, tickLtp, receivedAt))

\* ZerodhaTickRunnerService.reduceTickState, signal event
reduceSignal(state, token, signal, stoppx, receivedAt) ==
  IF signal = "NONE" THEN state
  ELSE LET existing == Get(state.fsmByToken, token, defaultFsm)
       IN setFsmByToken(state, token,
            zerodhaApplySignalTransition(existing, signal, stoppx,
              Get(state.latestLtpByToken, token, Null), receivedAt))

\* the service as a price event finds it; the re-evaluation of a blocked FSM
\* (the transition that carries an `intermediate` state) is noted in the history
tickCtx(symbol, current, ltp) ==
  IF current.state = "NOPOSITION_BLOCKED" /\ applyTickTransition(current, ltp, now) # current
  THEN [Ctx EXCEPT !.hist.events = Append(@, [type |-> "RECHECK", symbol |-> symbol,
                                               depth |-> 0])]
  ELSE Ctx

\* exchange price event for BTCUSDT: BtcLongFsmService.handleBinance
BinancePrice(price) ==
  LET fsm == applyTickTransition(longFsm, price, now)
  IN /\ feed = "binance"
     /\ ticks < limits.ticks /\ webhooks + ticks + resets < limits.events
     /\ ticks' = ticks + 1
     /\ longLastLtp' = price
     /\ longFsm' = fsm
     /\ Commit(fsmStateUpdate(tickCtx(LongSymbol, longFsm, price), longSnapshot(fsm, price)))
     /\ TablesAfterPrice
     /\ UNCHANGED <<now, tickState, zerodhaTracking, noneTracking, webhooks, resets, feed,
                   limits>>

\* broker tick {instrument_token, last_price}: the runner's scan step and its
\* subscriber, which publishes the snapshot of every token
BrokerTick(token, price) ==
  LET state == reduceTick(tickState, token, price, now)
  IN /\ feed = "zerodha"
     /\ ticks < limits.ticks /\ webhooks + ticks + resets < limits.events
     /\ ticks' = ticks + 1
     /\ tickState' = state
     /\ Commit(fsmStateUpdate(tickCtx(token, Get(tickState.fsmByToken, token, defaultFsm),
                                       price),
                               buildFsmSnapshot(state)))
     /\ TablesAfterPrice
     /\ UNCHANGED <<now, longFsm, longLastLtp, zerodhaTracking, noneTracking, webhooks, resets,
                   feed, limits>>

Payloads ==
  [symbol : {BtcWebhookSymbol} \cup BrokerSymbols, intent : {"BUY", "SELL"},
   side : {""}, stoppx : StopPrices \cup {Null}]

\* one webhook, delivered to the subscribers of webhook$ in subscription order:
\* BtcLongFsmService.handleWebhook, the WebhookStateService subscriber (modes
\* none and zerodha6; zerodha6 is the only mode that touches the trade state),
\* then the ZerodhaTickRunnerService signal event
Webhook(payload) ==
  LET isBtc == payload.symbol = BtcWebhookSymbol
      longTakes == isBtc /\ runnerGetSignalType(payload) = "BUY"
      fsm == IF longTakes
             THEN longApplySignalTransition(longFsm, "BUY", payload.stoppx, longLastLtp, now)
             ELSE longFsm
      symbol == payload.symbol
      tracked == symbol \in BrokerSymbols
      signal == getSignalType(normalizeString(payload.intent),
                              normalizeString(payload.side))
      state == IF tracked
               THEN reduceSignal(tickState, symbol, runnerGetSignalType(payload),
                                 payload.stoppx, now)
               ELSE tickState
  IN /\ (payload.symbol = BtcWebhookSymbol) <=> (feed = "binance")
     /\ webhooks < limits.webhooks /\ webhooks + ticks + resets < limits.events
     /\ webhooks' = webhooks + 1
     /\ longFsm' = fsm
     /\ tickState' = state
     \* each subscriber finds the service as the subscriber before it left it
     /\ \E c1 \in {IF longTakes THEN fsmStateUpdate(Ctx, longSnapshot(fsm, longLastLtp))
                    ELSE Ctx} :
        \E t \in {nextZerodhaTracking(c1, Get(zerodhaTracking, symbol, defaultTracking),
                                      signal, symbol, Has(c1.fsm.map, symbol),
                                      Get(c1.fsm.map, symbol, defaultFsm))} :
        \E c2 \in {IF tracked THEN t.c ELSE c1} :
          /\ noneTracking' =
               Put(noneTracking, symbol,
                   nextTracking(Get(noneTracking, symbol, defaultTracking), signal,
                                Has(c1.fsm.map, symbol), Get(c1.fsm.map, symbol, defaultFsm)))
          /\ zerodhaTracking' = IF tracked THEN Put(zerodhaTracking, symbol, t.state)
                                ELSE zerodhaTracking
          /\ Commit(IF tracked /\ runnerGetSignalType(payload) # "NONE"
                    THEN fsmStateUpdate(c2, buildFsmSnapshot(state)) ELSE c2)
     /\ TablesAfterWebhook(payload)
     /\ UNCHANGED <<now, longLastLtp, resets, ticks, feed, limits>>

isBtcSymbol(symbol) == symbol \in {"BTCUSDT", "BTCUSD", "BTCUSDT_LONG", "BTCUSDT_SHORT"}

resetTradeStateForSymbols(c) ==
  LET btc == {s \in Symbols : isBtcSymbol(s)}
      zero(f) == [s \in Symbols |-> IF s \in btc THEN 0 ELSE f[s]]
  IN [c EXCEPT
        !.pub = [f \in DOMAIN c.pub |-> DelAll(c.pub[f], btc)],
        !.inst.lastLiveTradeIdBySymbol = DelAll(@, btc),
        !.inst.liveTradeBlockedUntilBySymbol = DelAll(@, btc),
        !.inst.lastLiveEntryMinuteBySymbol = DelAll(@, btc),
        !.inst.zerodhaSellCountAfterBuyBySymbol = DelAll(@, btc),
        !.inst.zerodhaPendingBuySellSellBySymbol = @ \ btc,
        !.hist.paperOpens = zero(@),
        !.hist.realizedSince = zero(@),
        !.hist.liveRawSum = zero(@),
        !.hist.liveCloses = zero(@)]

\* TickFsmStateService.clearSymbols: delete and subject.next
clearSymbols(c, symbols) ==
  LET next == [keys |-> SelectSeq(c.fsm.keys, LAMBDA k : k \notin symbols),
               map |-> DelAll(c.fsm.map, symbols)]
  IN reduceTradeState([c EXCEPT !.fsm = next], next)

\* TickFsmStateService.clearAll: subject.next(new Map())
clearAll(c) ==
  LET next == [keys |-> <<>>, map |-> EmptyMap]
  IN reduceTradeState([c EXCEPT !.fsm = next], next)

\* HistoryBtcSchedulerService.runSnapshotAndClear after its await
DailyReset ==
  /\ resets < limits.resets /\ webhooks + ticks + resets < limits.events
  /\ resets' = resets + 1
  /\ Commit(clearSymbols(resetTradeStateForSymbols(Ctx),
                         {"BTCUSDT", "BTCUSDT_LONG", "BTCUSDT_SHORT", "BTCUSD"}))
  /\ TablesAfterReset(persist)
  /\ UNCHANGED <<now, longFsm, longLastLtp, tickState, zerodhaTracking, noneTracking,
                 webhooks, ticks, feed, limits>>

\* MainPageComponent.resetAll
ResetAll ==
  /\ resets < limits.resets /\ webhooks + ticks + resets < limits.events
  /\ resets' = resets + 1
  /\ Commit(clearAll(resetTradeStateForSymbols(Ctx)))
  \* localStorage.removeItem of both documents comes first
  /\ TablesAfterReset([s \in DOMAIN persist |->
                         [persist[s] EXCEPT !.document = <<>>, !.stored = FALSE]])
  /\ UNCHANGED <<now, longFsm, longLastLtp, tickState, zerodhaTracking, noneTracking,
                 webhooks, ticks, feed, limits>>

\* WebhookStateService.clearSignals(mode): subject.next(initialSignalState())
ClearSignals(mode) ==
  /\ limits.tables
  /\ resets < limits.resets /\ webhooks + ticks + resets < limits.events
  /\ resets' = resets + 1
  /\ signalStateByMode' = [signalStateByMode EXCEPT ![mode] = initialSignalState]
  /\ noneTracking' = IF mode = "none" THEN EmptyMap ELSE noneTracking
  /\ zerodhaTracking' = IF mode = "zerodha6" THEN EmptyMap ELSE zerodhaTracking
  /\ SignalSubjectsNext({mode})
  /\ persist' = persistAfter(persist, 0, TRUE)
  /\ sink' = <<>>
  /\ hist' = [hist EXCEPT !.events = <<>>, !.reductions = 0]
  /\ UNCHANGED <<now, longFsm, longLastLtp, tickState, fsmSubject, tradeState, inst,
                 webhooks, ticks, feed, limits>>

\* a consumer subscribes to signalState$(mode): the BehaviorSubject hands it its
\* current value (since, the number of webhooks processed before, is observation
\* only)
Subscribe(id, mode) ==
  /\ limits.tables
  /\ ~Has(subscriptions, id)
  /\ subscriptions' = Put(subscriptions, id, [mode |-> mode, value |-> SignalStateOf(mode),
                                               since |-> webhooks])
  /\ emissions' = <<>>
  /\ UNCHANGED <<now, longFsm, longLastLtp, tickState, fsmSubject, tradeState, inst,
                 zerodhaTracking, noneTracking, sink, hist, webhooks, resets, ticks, feed,
                 limits, signalStateByMode, persist>>

Unsubscribe(id) ==
  /\ limits.tables
  /\ Has(subscriptions, id)
  /\ subscriptions' = Del(subscriptions, id)
  /\ emissions' = <<>>
  /\ UNCHANGED <<now, longFsm, longLastLtp, tickState, fsmSubject, tradeState, inst,
                 zerodhaTracking, noneTracking, sink, hist, webhooks, resets, ticks, feed,
                 limits, signalStateByMode, persist>>

\* the document a service writes with localStorage.setItem
documentOf(service) == IF service = "fsm" THEN fsmDocument ELSE webhookDocument

\* a save that keeps an item that is already stored (used to test the
\* sensitivity of C27)
saveSnapshotOnce(p, service, written) ==
  IF written /\ ~p.stored
  THEN [p EXCEPT !.document = documentOf(service), !.stored = TRUE]
  ELSE p

\* saveSnapshot of a service; written is FALSE when setItem throws
saveSnapshot(p, service, written) ==
  IF written
  THEN [p EXCEPT !.document = documentOf(service), !.stored = TRUE,
                 !.retried = @ \/ p.threw, !.threw = FALSE]
  ELSE [p EXCEPT !.threw = TRUE]

\* the callback of schedulePersist's setTimeout, which is due now
PersistTimeout(service, written) ==
  /\ limits.tables
  /\ persist[service].timeout # Null /\ persist[service].timeout <= now
  /\ persist' = [persist EXCEPT
                   ![service] = saveSnapshot([@ EXCEPT !.timeout = Null], service, written)]
  /\ emissions' = <<>>
  /\ UNCHANGED <<now, longFsm, longLastLtp, tickState, fsmSubject, tradeState, inst,
                 zerodhaTracking, noneTracking, sink, hist, webhooks, resets, ticks, feed,
                 limits, signalStateByMode, subscriptions>>

\* beforeunload: the unloadHandler of a service
Unload(service, written) ==
  /\ limits.tables
  /\ persist' = [persist EXCEPT ![service] = saveSnapshot(@, service, written)]
  /\ emissions' = <<>>
  /\ UNCHANGED <<now, longFsm, longLastLtp, tickState, fsmSubject, tradeState, inst,
                 zerodhaTracking, noneTracking, sink, hist, webhooks, resets, ticks, feed,
                 limits, signalStateByMode, subscriptions>>

\* BtcLongFsmService constructor: the FSM restored from the shared snapshot
longFsmRestored(snapshot) ==
  IF Has(snapshot.map, LongSymbol)
  THEN [defaultFsm EXCEPT !.state = snapshot.map[LongSymbol].state,
                          !.threshold = snapshot.map[LongSymbol].threshold,
                          !.lastBUYThreshold = snapshot.map[LongSymbol].lastBUYThreshold,
                          !.lastSELLThreshold = snapshot.map[LongSymbol].lastSELLThreshold]
  ELSE defaultFsm

\* what hydrateFromStorage of the two state services finds in localStorage
storedSnapshot ==
  IF persist.fsm.stored THEN fsmFromDocument(persist.fsm.document)
  ELSE [keys |-> <<>>, map |-> EmptyMap]

storedSignalState(mode) ==
  IF persist.webhook.stored
  THEN fromPersistedSignalState(persist.webhook.document.signalStateByMode[mode])
  ELSE [bySymbol |-> EmptyMap, fsmBySymbol |-> EmptyMap, paperTradesBySymbol |-> EmptyMap,
        symbols |-> <<>>]

storedTradeState ==
  IF persist.webhook.stored THEN fromPersistedTradeState(persist.webhook.document.tradeState)
  ELSE initialTradeState

\* the page is loaded again: localStorage stays, every service is constructed
\* anew (TickFsmStateService and WebhookStateService hydrate from their items,
\* BtcLongFsmService restores from the shared snapshot, ZerodhaTickRunnerService
\* starts from buildInitialState), and the combineLatest subscriber runs its
\* first reduction over the restored snapshot
Restart ==
  /\ limits.tables
  /\ resets < limits.resets /\ webhooks + ticks + resets < limits.events
  /\ resets' = resets + 1
  /\ longFsm' = longFsmRestored(storedSnapshot)
  /\ longLastLtp' = IF Has(storedSnapshot.map, LongSymbol)
                    THEN storedSnapshot.map[LongSymbol].ltp ELSE Null
  /\ tickState' = [keys |-> <<>>, fsmByToken |-> EmptyMap, latestLtpByToken |-> EmptyMap]
  /\ noneTracking' = storedSignalState("none").fsmBySymbol
  /\ zerodhaTracking' = storedSignalState("zerodha6").fsmBySymbol
  /\ signalStateByMode' = [mode \in ModeSet |->
                             [bySymbol |-> storedSignalState(mode).bySymbol,
                              symbols |-> storedSignalState(mode).symbols]]
  /\ Commit(reduceTradeState(
              [now |-> now, depth |-> 0, pub |-> storedTradeState, fsm |-> storedSnapshot,
               inst |-> initialInst, sink |-> <<>>,
               hist |-> [hist EXCEPT !.events = <<>>, !.reductions = 0,
                                     !.restartedAt = now]],
              storedSnapshot))
  /\ subscriptions' = EmptyMap
  /\ emissions' = <<>>
  /\ persist' = [service \in DOMAIN persist |->
                   [persist[service] EXCEPT
                      !.timeout = IF service = "webhook" THEN now + PersistDelay ELSE Null]]
  /\ UNCHANGED <<now, webhooks, ticks, feed, limits>>

\* the instants at which something can happen: the observed instants and the due
\* times of the save timers
instantsAhead ==
  {t \in InstantsAt(limits.seconds) \cup {persist[s].timeout : s \in DOMAIN persist} : t > now}

\* the wall clock moves to the next observed instant; a timer that is due runs
\* before the clock moves on
AdvanceClock ==
  /\ instantsAhead # {}
  /\ \A s \in DOMAIN persist : persist[s].timeout = Null \/ persist[s].timeout > now
  /\ now' = CHOOSE t \in instantsAhead : \A u \in instantsAhead : t <= u
  /\ UNCHANGED <<longFsm, longLastLtp, tickState, fsmSubject, tradeState, inst,
                 zerodhaTracking, noneTracking, sink, hist, webhooks, resets, ticks, feed, limits,
                 tableVars>>

\* the state after construction, for a feed and the limits of a behaviour
Constructed(feeds, lim) ==
  /\ now = 0
  /\ longFsm = defaultFsm
  /\ longLastLtp = Null
  /\ tickState = [keys |-> <<>>, fsmByToken |-> EmptyMap, latestLtpByToken |-> EmptyMap]
  /\ fsmSubject = [keys |-> <<>>, map |-> EmptyMap]
  /\ tradeState = initialTradeState
  /\ inst = initialInst
  /\ zerodhaTracking = EmptyMap
  /\ noneTracking = EmptyMap
  /\ sink = <<>>
  /\ hist = initialHist
  /\ webhooks = 0
  /\ resets = 0
  /\ ticks = 0
  /\ feed \in feeds
  /\ limits = lim
  /\ signalStateByMode = [mode \in ModeSet |-> initialSignalState]
  /\ subscriptions = EmptyMap
  /\ emissions = <<>>
  /\ persist = initialPersist

Init ==
  Constructed(Feeds, [webhooks |-> MaxWebhooks, ticks |-> MaxTicks, resets |-> MaxResets,
                      events |-> MaxEvents, seconds |-> SecondsOfInterest,
                      tables |-> FALSE])

Next ==
  \/ \E price \in Prices : BinancePrice(price)
  \/ \E token \in BrokerSymbols, price \in Prices : BrokerTick(token, price)
  \/ \E payload \in Payloads : Webhook(payload)
  \/ DailyReset
  \/ ResetAll
  \/ AdvanceClock

Spec == Init /\ [][Next]_vars

\* a longer behaviour of the broker feed alone: webhooks that carry a stop price,
\* broker ticks and the clock, with no reset
SessionInit ==
  Constructed({"zerodha"}, [webhooks |-> SessionMaxWebhooks, ticks |-> SessionMaxTicks,
                            resets |-> 0, events |-> SessionMaxEvents,
                            seconds |-> SessionSeconds, tables |-> FALSE])

SessionNext ==
  \/ \E token \in BrokerSymbols, price \in Prices : BrokerTick(token, price)
  \/ \E payload \in {p \in Payloads : p.symbol \in BrokerSymbols /\ p.stoppx # Null} :
       Webhook(payload)
  \/ AdvanceClock

SessionSpec == SessionInit /\ [][SessionNext]_vars

\* a short behaviour that also follows the signal tables of the five modes, their
\* subscribers and the documents in localStorage
Subscribers == {"s1"}

TablePayloads ==
  {p \in [symbol : {BtcWebhookSymbol} \cup BrokerSymbols,
          intent : {"BUY", "SELL", "HOLD", " buy "}, side : {"", "BUY"}, stoppx : StopPrices] :
     p.side = "BUY" <=> p.intent = "HOLD"}

TablePrices == {101}

TableInit ==
  Constructed(Feeds, [webhooks |-> TableMaxWebhooks, ticks |-> TableMaxTicks, resets |-> 1,
                      events |-> TableMaxEvents, seconds |-> SessionSeconds,
                      tables |-> TRUE])

TableNext ==
  \/ \E price \in TablePrices : BinancePrice(price)
  \/ \E token \in BrokerSymbols, price \in TablePrices : BrokerTick(token, price)
  \/ \E payload \in TablePayloads : Webhook(payload)
  \/ DailyReset
  \/ ResetAll
  \/ \E mode \in ModeSet : ClearSignals(mode)
  \/ \E id \in Subscribers, mode \in ModeSet : Subscribe(id, mode)
  \/ \E id \in Subscribers : Unsubscribe(id)
  \/ \E service \in DOMAIN persist : PersistTimeout(service, TRUE)
  \/ AdvanceClock

TableSpec == TableInit /\ [][TableNext]_vars

\* a short behaviour without subscribers in which localStorage.setItem may throw
\* and the page may unload
StorageNext ==
  \/ \E price \in TablePrices : BinancePrice(price)
  \/ \E token \in BrokerSymbols, price \in TablePrices : BrokerTick(token, price)
  \/ \E payload \in {p \in Payloads : p.stoppx # Null} : Webhook(payload)
  \/ DailyReset
  \/ ResetAll
  \/ \E mode \in ModeSet : ClearSignals(mode)
  \/ \E service \in DOMAIN persist, written \in BOOLEAN : PersistTimeout(service, written)
  \/ \E service \in DOMAIN persist, written \in BOOLEAN : Unload(service, written)
  \/ AdvanceClock

\* a behaviour of webhooks for one symbol, long enough to overflow its row list,
\* with one clearSignals in between
RowCapPayloads ==
  {[symbol |-> BtcWebhookSymbol, intent |-> "BUY", side |-> "", stoppx |-> 100]}

RowCapInit ==
  Constructed(Feeds, [webhooks |-> RowCapMaxWebhooks, ticks |-> 0, resets |-> 1,
                      events |-> RowCapMaxWebhooks + 1, seconds |-> SessionSeconds,
                      tables |-> TRUE])

RowCapNext ==
  \/ \E payload \in RowCapPayloads : Webhook(payload)
  \/ \E mode \in ModeSet : ClearSignals(mode)

RowCapSpec == RowCapInit /\ [][RowCapNext]_vars

\* a behaviour in which the documents are saved and the page is loaded again
RestartPrices == {99, 101}

RestartInit ==
  Constructed(Feeds, [webhooks |-> RestartMaxWebhooks, ticks |-> RestartMaxTicks,
                      resets |-> 1, events |-> RestartMaxEvents,
                      seconds |-> SessionSeconds, tables |-> TRUE])

RestartNext ==
  \/ \E price \in RestartPrices : BinancePrice(price)
  \/ \E token \in BrokerSymbols, price \in RestartPrices : BrokerTick(token, price)
  \/ \E payload \in {p \in Payloads : p.stoppx # Null} : Webhook(payload)
  \/ \E service \in DOMAIN persist : PersistTimeout(service, TRUE)
  \/ \E service \in DOMAIN persist : Unload(service, TRUE)
  \/ Restart
  \/ AdvanceClock

RestartSpec == RestartInit /\ [][RestartNext]_vars

\* a behaviour of the long runner alone: BTCUSDT webhooks with and without a stop
\* price, Binance prices below, at and above the stop price, and the clock
LongPrices == {99, 100, 101}

LongPayloads == {p \in Payloads : p.symbol = BtcWebhookSymbol}

LongInit ==
  Constructed({"binance"}, [webhooks |-> LongMaxWebhooks, ticks |-> LongMaxTicks,
                            resets |-> 0, events |-> LongMaxEvents,
                            seconds |-> SecondsOfInterest, tables |-> FALSE])

LongNext ==
  \/ \E price \in LongPrices : BinancePrice(price)
  \/ \E payload \in LongPayloads : Webhook(payload)
  \/ AdvanceClock

LongSpec == LongInit /\ [][LongNext]_vars

\* a behaviour of the exchange feed in which no webhook arrives after the daily
\* reset: BTCUSDT webhooks and prices, the reset, then prices alone
ResetInit ==
  Constructed({"binance"}, [webhooks |-> ResetMaxWebhooks, ticks |-> ResetMaxTicks,
                            resets |-> 1, events |-> ResetMaxEvents,
                            seconds |-> SecondsOfInterest, tables |-> FALSE])

ResetNext ==
  \/ \E price \in Prices : BinancePrice(price)
  \/ \E payload \in LongPayloads : resets = 0 /\ Webhook(payload)
  \/ DailyReset
  \/ AdvanceClock

ResetSpec == ResetInit /\ [][ResetNext]_vars

StorageInit ==
  Constructed(Feeds, [webhooks |-> TableMaxWebhooks, ticks |-> TableMaxTicks, resets |-> 1,
                      events |-> StorageMaxEvents, seconds |-> SessionSeconds,
                      tables |-> TRUE])

StorageSpec == StorageInit /\ [][StorageNext]_vars

\* ================================================================== claims
\* C1: in every published trade state, a symbol that has a live trade open
\* also has a paper trade open.
C1_LiveImpliesPaper ==
  \A s \in DOMAIN tradeState.liveOpenBySymbol : s \in DOMAIN tradeState.openBySymbol

\* a live trade is open (with its paper trade) after an earlier live trade of the
\* same symbol was closed
C1_Witness ==
  \E s \in Symbols :
    /\ Has(tradeState.liveOpenBySymbol, s) /\ Has(tradeState.openBySymbol, s)
    /\ hist.lastLiveCloseAt[s] # Null

\* C2: per symbol and wall-clock minute at most one live OPEN happens, whatever
\* the snapshot updates, exits, re-entries, forced closes and resets in between.
C2_OneLiveOpenPerMinute ==
  \A s \in Symbols : hist.liveOpensInMinute[s] <= 1

\* the paper and live figures the engine sees for symbol s when a price event
\* publishes the snapshot entry `current`
C3_Unrealized(s, current) ==
  calculatePnl(s, current.ltp, tradeState.openBySymbol[s].entryPrice,
               tradeState.openBySymbol[s].quantity, tradeState.openBySymbol[s].lot)

C3_Pre(s) ==
  /\ ticks' = ticks + 1
  /\ Has(fsmSubject'.map, s)
  /\ isPositionState(fsmSubject'.map[s].state)
  /\ fsmSubject'.map[s].ltp # Null
  /\ Has(tradeState.openBySymbol, s) /\ Has(tradeState.liveOpenBySymbol, s)
  /\ C3_Unrealized(s, fsmSubject'.map[s]) + Get(tradeState.cumulativeBySymbol, s, 0) < 0

C3_Post(s) ==
  /\ ~Has(tradeState'.liveOpenBySymbol, s)
  /\ Cardinality({i \in DOMAIN sink' : sink'[i].symbol = s /\ sink'[i].action = "CLOSE"}) = 1
  /\ Get(inst'.liveTradeBlockedUntilBySymbol, s, 0) = (MinuteOf(now) + 1) * MsPerMinute

\* C3: when a price event publishes a snapshot for a symbol that is in position
\* with a paper and a live trade open and paper unrealized + paper cumulative < 0
\* at the snapshot's ltp, that step closes the live trade, emits exactly one
\* CLOSE order for it and blocks live entries until the next minute starts.
C3_ForcedClose == [][\A s \in Symbols : C3_Pre(s) => C3_Post(s)]_vars

\* a P&L-forced live close has just happened
C3_Witness ==
  \E i \in DOMAIN hist.events : hist.events[i].type = "LIVE_FORCED_CLOSE"
\* the conditions of a live entry for symbol s as a price event finds them:
\* the new snapshot entry, the paper trade and the paper cumulative P&L, the
\* block, the clock, and the minute of the symbol's last live OPEN
C4_Entering(s) ==
  /\ ~isPositionState(IF Has(tradeState.lastSnapshotBySymbol, s)
                      THEN tradeState.lastSnapshotBySymbol[s].state ELSE "NOSIGNAL")
  /\ isPositionState(fsmSubject'.map[s].state)

C4_Conditions(s) ==
  /\ Has(fsmSubject'.map, s)
  /\ isPositionState(fsmSubject'.map[s].state)
  /\ fsmSubject'.map[s].ltp # Null
  /\ Has(tradeState'.openBySymbol, s)
  /\ ~Has(tradeState.liveOpenBySymbol, s)
  /\ now >= Get(inst.liveTradeBlockedUntilBySymbol, s, 0)
  /\ calculatePnl(s, fsmSubject'.map[s].ltp, tradeState'.openBySymbol[s].entryPrice,
                  tradeState'.openBySymbol[s].quantity, tradeState'.openBySymbol[s].lot)
       + Get(tradeState.cumulativeBySymbol, s, 0) >= 0
  /\ (C4_Entering(s) \/ SecondsOf(now) = 0)
  /\ hist.liveOpenMinute[s] # MinuteOf(now)

C4_LiveOpened(s) ==
  \E i \in DOMAIN sink' : sink'[i].symbol = s /\ sink'[i].action = "OPEN"

\* C4: a price event opens a live trade for a symbol if and only if a paper trade
\* is open and the FSM is in position, no live trade is open, now is not before
\* blocked_until, paper unrealized + paper cumulative >= 0, the step is an
\* entering edge or the second is 0, and no live trade was opened for the symbol
\* in this wall-clock minute.
C4_LiveOpenIff ==
  [][ticks' = ticks + 1 => \A s \in Symbols : C4_LiveOpened(s) <=> C4_Conditions(s)]_vars
\* a live trade of symbol s was closed in the current minute before the i-th
\* order of the running handler: by an earlier handler, or earlier in this one
C5_ClosedThisMinuteBefore(s, i) ==
  \/ /\ hist.lastLiveCloseAt[s] # Null
     /\ MinuteOf(hist.lastLiveCloseAt[s]) = MinuteOf(now)
  \/ \E j \in 1..(i - 1) : sink'[j].symbol = s /\ sink'[j].action = "CLOSE"

\* C5: after a live trade of a symbol is closed (forced by P&L, or because the FSM
\* left its position state), no live OPEN for that symbol happens before the next
\* wall-clock minute starts (stated over the behaviours without a reset, in which
\* the minute of the last live entry is never forgotten).
C5_NoOpenAfterCloseInMinute ==
  [][(now' = now /\ resets' = 0) =>
       \A i \in DOMAIN sink' :
         sink'[i].action = "OPEN" => ~C5_ClosedThisMinuteBefore(sink'[i].symbol, i)]_vars

\* C6: whenever a handler has opened a live trade for a symbol, the symbol's paper
\* cumulative P&L is not negative.
C6_NoLiveOpenWhileCumulativeNegative ==
  \A i \in DOMAIN sink :
    sink[i].action = "OPEN" => Get(tradeState.cumulativeBySymbol, sink[i].symbol, 0) >= 0

\* C7: once a handler has run, every symbol of the shared snapshot has a paper
\* trade open if and only if its FSM state is BUYPOSITION or SELLPOSITION (for
\* every price a tick can carry, 0 included).
C7_PaperOpenIffInPosition ==
  \A s \in DOMAIN fsmSubject.map :
    Has(tradeState.openBySymbol, s) <=> isPositionState(fsmSubject.map[s].state)
\* the paper exit rows of a symbol (ids ending in -exit)
C8_ExitRows(s) ==
  LET rows == Get(tradeState.tradesBySymbol, s, <<>>)
  IN Cardinality({i \in DOMAIN rows : rows[i].exit})

\* C8: for every symbol, the number of paper trades opened since boot or the last
\* reset equals the number of paper exit rows, plus 1 if a paper trade is open.
C8_PaperOpensBalance ==
  \A s \in Symbols :
    hist.paperOpens[s] =
      C8_ExitRows(s) + (IF Has(tradeState.openBySymbol, s) THEN 1 ELSE 0)

\* a symbol has two exit rows and a third paper trade open
C8_Witness ==
  \E s \in Symbols : C8_ExitRows(s) >= 2 /\ Has(tradeState.openBySymbol, s)

\* C9: for every symbol, the stored paper cumulative P&L equals the sum of the
\* realized P&L of the paper exits since boot or since the last reset of the
\* symbol's cumulative (reset of the BTC state, or a broker-6 cumulative reset).
C9_PaperCumulativeIsRealizedSum ==
  \A s \in Symbols : Get(tradeState.cumulativeBySymbol, s, 0) = hist.realizedSince[s]

\* C10: for every symbol, the stored live cumulative P&L equals the sum over the
\* closed live trades of (raw live P&L at close - 50).
C10_LiveCumulativeExitCost ==
  \A s \in Symbols :
    Get(tradeState.liveCumulativeBySymbol, s, 0) =
      hist.liveRawSum[s] - LiveExitCost * hist.liveCloses[s]

\* a symbol has had a P&L-forced live close and, later, a live close on FSM exit
C10_Witness ==
  \E s \in Symbols :
    /\ hist.liveCloses[s] >= 2
    /\ \E i \in DOMAIN hist.events :
         hist.events[i].type = "LIVE_EXIT_CLOSE" /\ hist.events[i].symbol = s

\* the newest paper row of the long runner's symbol after a price event, and the
\* P&L of the paper trade open before the event, measured at price p from `base`
C11_NewestRow == tradeState'.tradesBySymbol[LongSymbol][1]

C11_PnlFrom(base, p) ==
  (p - base) * tradeState.openBySymbol[LongSymbol].quantity
             * tradeState.openBySymbol[LongSymbol].lot

\* a price event p # 0 finds the long runner in BUYPOSITION with a paper trade
\* open: if the FSM stays in position the open row shows the P&L from `base`, if
\* it leaves the exit row shows it as realized and the cumulative grows by it
C11_PaperPnl(base) ==
  (/\ ticks' = ticks + 1 /\ feed = "binance" /\ longLastLtp' # 0
   /\ longFsm.state = "BUYPOSITION" /\ Has(tradeState.openBySymbol, LongSymbol))
  => IF longFsm'.state = "BUYPOSITION"
     THEN /\ ~C11_NewestRow.exit
          /\ C11_NewestRow.unrealizedPnl = C11_PnlFrom(base, longLastLtp')
     ELSE /\ C11_NewestRow.exit
          /\ C11_NewestRow.unrealizedPnl = C11_PnlFrom(base, longLastLtp')
          /\ Get(tradeState'.cumulativeBySymbol, LongSymbol, 0) =
               Get(tradeState.cumulativeBySymbol, LongSymbol, 0)
                 + C11_PnlFrom(base, longLastLtp')

C12_Fsms == {longFsm} \cup {tickState.fsmByToken[s] : s \in DOMAIN tickState.fsmByToken}

\* C12: for every runner and symbol, after any signal or tick transition, an FSM
\* in NOPOSITION_SIGNAL, BUYPOSITION, SELLPOSITION or NOPOSITION_BLOCKED has a
\* threshold and a last_signal_at_ms that are not null.
C12_ThresholdAndSignalTimeSet ==
  \A f \in C12_Fsms :
    f.state \in {"NOPOSITION_SIGNAL", "BUYPOSITION", "SELLPOSITION", "NOPOSITION_BLOCKED"}
      => f.threshold # Null /\ f.lastSignalAtMs # Null

\* the FSM of a symbol in its runner, before and after a step
C13_FsmOf(s) == IF s = LongSymbol THEN longFsm ELSE tickState.fsmByToken[s]

C13_NextFsmOf(s) == IF s = LongSymbol THEN longFsm' ELSE tickState'.fsmByToken[s]

C13_Runs == {LongSymbol} \cup DOMAIN tickState.fsmByToken

\* now is in second 0 of a minute strictly after the minute of last_blocked_at_ms
C13_AtRecheckTime(f) ==
  SecondsOf(now) = 0 /\ MinuteOf(now) > MinuteOf(f.lastBlockedAtMs)

\* C13 (as stated): every transition of a symbol's FSM out of NOPOSITION_BLOCKED,
\* by any event, happens in second 0 of a wall-clock minute strictly greater than
\* the minute of last_blocked_at_ms.
C13_LeavesBlockedOnlyAtRecheckTime ==
  [][\A s \in C13_Runs :
       (C13_FsmOf(s).state = "NOPOSITION_BLOCKED"
          /\ C13_NextFsmOf(s).state # "NOPOSITION_BLOCKED")
       => C13_AtRecheckTime(C13_FsmOf(s))]_vars

\* C13 (amended): a blocked FSM is changed only by a price event in second 0 of a
\* minute strictly greater than the minute of last_blocked_at_ms (so it is
\* re-evaluated by ticks at most once per minute), or by a signal its runner
\* accepts, which moves it to NOPOSITION_SIGNAL at whatever time it arrives.
C13_BlockedChangesOnlyByRecheckOrSignal ==
  [][\A s \in C13_Runs :
       (C13_FsmOf(s).state = "NOPOSITION_BLOCKED" /\ C13_NextFsmOf(s) # C13_FsmOf(s))
       => \/ ticks' = ticks + 1 /\ C13_AtRecheckTime(C13_FsmOf(s))
          \/ /\ webhooks' = webhooks + 1
             /\ C13_NextFsmOf(s).state = "NOPOSITION_SIGNAL"
             /\ C13_NextFsmOf(s).lastSignalAtMs = now]_vars

\* a price event has just re-evaluated a blocked FSM, which went into position
C13_Witness ==
  \E i \in DOMAIN hist.events :
    /\ hist.events[i].type = "RECHECK"
    /\ C13_FsmOf(hist.events[i].symbol).state = "BUYPOSITION"

\* the effect of a tick of price ltp on a blocked FSM f with threshold T: nothing
\* outside second 0 of a later minute; there, the re-entry into NOPOSITION_SIGNAL
\* (last_signal_at_ms := now) resolved in the same step
C14_Rearm(f, g, ltp) ==
  IF C13_AtRecheckTime(f)
  THEN g = [f EXCEPT !.state = IF ltp > f.threshold THEN "BUYPOSITION"
                                ELSE "NOPOSITION_BLOCKED",
                     !.lastSignalAtMs = now,
                     !.lastCheckedAtMs = now,
                     !.lastBlockedAtMs = IF ltp > f.threshold THEN Null ELSE now]
  ELSE g = f

\* C14: for an FSM in NOPOSITION_BLOCKED with threshold T, a tick in the blocking
\* minute or in a second other than 0 is a no-op; a tick in second 0 of a strictly
\* later minute resolves to BUYPOSITION if ltp > T, otherwise back to
\* NOPOSITION_BLOCKED with last_blocked_at_ms set to the time of the tick.
C14_BlockedRearm ==
  [][/\ \A price \in Prices :
          (BinancePrice(price) /\ longFsm.state = "NOPOSITION_BLOCKED")
          => C14_Rearm(longFsm, longFsm', price)
     /\ \A token \in DOMAIN tickState.fsmByToken, price \in Prices :
          (BrokerTick(token, price)
             /\ tickState.fsmByToken[token].state = "NOPOSITION_BLOCKED")
          => C14_Rearm(tickState.fsmByToken[token], tickState'.fsmByToken[token], price)]_vars

\* a price event in second 0 of a later minute has re-evaluated a blocked FSM and
\* blocked it again, at the time of the tick
C14_Witness ==
  \E i \in DOMAIN hist.events :
    /\ hist.events[i].type = "RECHECK"
    /\ C13_FsmOf(hist.events[i].symbol).state = "NOPOSITION_BLOCKED"
    /\ C13_FsmOf(hist.events[i].symbol).lastBlockedAtMs = now
    /\ now >= MsPerMinute

\* C15: in the broker-6 runner, the tick that passes the NOPOSITION_SIGNAL test
\* moves the FSM to SELLPOSITION when the signal that armed it was a SELL, and to
\* BUYPOSITION when it was a BUY.
C15_SellSignalEntersSellPosition ==
  [][\A token \in DOMAIN tickState.fsmByToken :
       (/\ ticks' = ticks + 1 /\ feed = "zerodha"
        /\ tickState.fsmByToken[token].state = "NOPOSITION_SIGNAL"
        /\ isPositionState(tickState'.fsmByToken[token].state))
       => tickState'.fsmByToken[token].state =
            (IF Get(zerodhaTracking, token, defaultTracking).lastSignal = "SELL"
             THEN "SELLPOSITION" ELSE "BUYPOSITION")]_vars

\* the long runner's entry of the published snapshot (empty when there is none)
C16_LongEntry(store) ==
  IF Has(store.map, LongSymbol) THEN <<store.map[LongSymbol]>> ELSE <<>>

\* C16: the long runner's FSM changes only on BUY/ENTRY webhooks for BTCUSDT and
\* on BTCUSDT price events; a SELL/EXIT webhook leaves its FSM and its entry of the
\* published snapshot unchanged; its state is never SELLPOSITION.
C16_LongRunnerFrame ==
  [][/\ longFsm'.state # "SELLPOSITION"
     /\ longFsm' # longFsm
          => \/ \E price \in Prices : BinancePrice(price)
             \/ \E payload \in Payloads :
                  /\ payload.symbol = BtcWebhookSymbol
                  /\ payload.intent \in {"BUY", "ENTRY"}
                  /\ Webhook(payload)
     /\ \A payload \in Payloads :
          (payload.intent \in {"SELL", "EXIT"} /\ Webhook(payload))
          => /\ longFsm' = longFsm
             /\ C16_LongEntry(fsmSubject') = C16_LongEntry(fsmSubject)]_vars

\* a SELL webhook for BTCUSDT has been delivered while the long runner is in
\* BUYPOSITION, and the runner is still there
C16_Witness ==
  /\ Get(noneTracking, BtcWebhookSymbol, defaultTracking).lastSignal = "SELL"
  /\ longFsm.state = "BUYPOSITION"
  /\ Has(fsmSubject.map, LongSymbol)
  /\ fsmSubject.map[LongSymbol].state = "BUYPOSITION"

\* what a signal may change in a broker-6 FSM f that is in position: the
\* threshold (BUY: stoppx when the payload has one; SELL: the latest LTP), the
\* buy or sell threshold of the signal's direction, and last_signal_at_ms
C17_Retained(f, payload, latestLtp) ==
  IF payload.intent \in {"BUY", "ENTRY"}
  THEN LET threshold == IF payload.stoppx # Null THEN payload.stoppx ELSE f.threshold
       IN [f EXCEPT !.threshold = threshold, !.savedBUYThreshold = threshold,
                    !.lastBUYThreshold = threshold, !.lastSignalAtMs = now]
  ELSE LET threshold == IF latestLtp # Null THEN latestLtp ELSE f.threshold
       IN [f EXCEPT !.threshold = threshold, !.lastSELLThreshold = threshold,
                    !.lastSignalAtMs = now]

\* the handler that ran last has taken symbol s through an FSM exit: a paper exit,
\* or the close of the live trade that goes with it
C17_ExitedByFsm(s) ==
  \E i \in DOMAIN hist'.events :
    /\ hist'.events[i].symbol = s
    /\ hist'.events[i].type \in {"PAPER_EXIT", "LIVE_EXIT_CLOSE"}

\* the handler that ran last has closed the live trade of symbol s
C17_LiveClosed(s) ==
  /\ Has(tradeState.liveOpenBySymbol, s)
  /\ ~Has(tradeState'.liveOpenBySymbol, s)

\* C17: in the broker-6 runner, a BUY or SELL webhook received while the symbol's
\* FSM is in BUYPOSITION or SELLPOSITION never changes the FSM state; only the
\* threshold, the last buy or sell threshold of the signal's direction and
\* last_signal_at_ms change, the published state stays a position state, and the
\* webhook takes the symbol through no FSM exit: the paper trade stays open as it
\* was and no live trade is closed on an exit edge. The webhook closes the live
\* trade only when it alternates the tracked direction, which resets the paper
\* cumulative P&L to 0 under a paper trade that is at a loss.
C17_SignalInPositionKeepsState ==
  [][\A payload \in Payloads :
       (/\ Webhook(payload)
        /\ Has(tickState.fsmByToken, payload.symbol)
        /\ isPositionState(tickState.fsmByToken[payload.symbol].state))
       => /\ tickState'.fsmByToken[payload.symbol] =
               C17_Retained(tickState.fsmByToken[payload.symbol], payload,
                            Get(tickState.latestLtpByToken, payload.symbol, Null))
          /\ fsmSubject'.map[payload.symbol].state =
               tickState.fsmByToken[payload.symbol].state
          /\ ~C17_ExitedByFsm(payload.symbol)
          /\ Get(tradeState'.openBySymbol, payload.symbol, Null) =
               Get(tradeState.openBySymbol, payload.symbol, Null)
          /\ C17_LiveClosed(payload.symbol)
               => /\ Get(zerodhaTracking, payload.symbol, defaultTracking).lastSignal
                       \notin {"NONE", getSignalType(payload.intent, payload.side)}
                  /\ Get(tradeState.cumulativeBySymbol, payload.symbol, 0) > 0
                  /\ Get(tradeState'.cumulativeBySymbol, payload.symbol, 0) = 0
                  /\ tradeState'.tradesBySymbol[payload.symbol][1].unrealizedPnl < 0]_vars

\* C17 as stated: the same webhook causes no exit at all, neither of the paper
\* trade nor of the live trade.
C17_SignalInPositionCausesNoExit ==
  [][\A payload \in Payloads :
       (/\ Webhook(payload)
        /\ Has(tickState.fsmByToken, payload.symbol)
        /\ isPositionState(tickState.fsmByToken[payload.symbol].state))
       => /\ tickState'.fsmByToken[payload.symbol].state =
               tickState.fsmByToken[payload.symbol].state
          /\ ~C17_ExitedByFsm(payload.symbol)
          /\ ~C17_LiveClosed(payload.symbol)]_vars

\* a broker symbol is in BUYPOSITION with its paper trade open, and its last
\* signal, a SELL that set the threshold, came after the tick that entered
C17_Witness ==
  \E s \in DOMAIN tickState.fsmByToken :
    /\ tickState.fsmByToken[s].state = "BUYPOSITION"
    /\ tickState.fsmByToken[s].lastSignalAtMs > tickState.fsmByToken[s].lastCheckedAtMs
    /\ tickState.fsmByToken[s].threshold = tickState.fsmByToken[s].lastSELLThreshold
    /\ Get(zerodhaTracking, s, defaultTracking).lastSignal = "SELL"
    /\ Has(tradeState.openBySymbol, s)

\* C18: in broker-6 mode, once a webhook whose direction differs from the
\* direction tracked before it for the same symbol (BUY after SELL, SELL after
\* BUY) has been processed, the symbol's paper cumulative P&L in the trade state
\* is 0, whatever price events came in between.
C18_AlternationZeroesCumulative ==
  [][\A s \in BrokerSymbols :
       (/\ webhooks' = webhooks + 1
        /\ Get(zerodhaTracking, s, defaultTracking).lastSignal # "NONE"
        /\ Get(zerodhaTracking', s, defaultTracking).lastSignal
             # Get(zerodhaTracking, s, defaultTracking).lastSignal)
       => Get(tradeState'.cumulativeBySymbol, s, 0) = 0]_vars

\* a broker symbol has a paper exit with a realized P&L that is not 0 on record,
\* its last signal is a SELL that followed a BUY, and its cumulative is stored as 0
C18_Witness ==
  \E s \in BrokerSymbols :
    /\ Get(zerodhaTracking, s, defaultTracking).lastSignal = "SELL"
    /\ Get(noneTracking, s, defaultTracking).alternateSignal
    /\ Has(tradeState.cumulativeBySymbol, s)
    /\ tradeState.cumulativeBySymbol[s] = 0
    /\ \E i \in DOMAIN Get(tradeState.tradesBySymbol, s, <<>>) :
         /\ tradeState.tradesBySymbol[s][i].exit
         /\ tradeState.tradesBySymbol[s][i].unrealizedPnl # 0

\* payload is the second SELL after a BUY on broker symbol s (BUY, SELL, SELL), and
\* the shared snapshot shows s out of position with ltp < last_buy_threshold
C19_SecondSellBelowBuyThreshold(s, payload) ==
  /\ payload.symbol = s
  /\ getSignalType(payload.intent, payload.side) = "SELL"
  /\ Get(zerodhaTracking, s, defaultTracking).lastSignal = "SELL"
  /\ Get(inst.zerodhaSellCountAfterBuyBySymbol, s, 0) = 1
  /\ Has(fsmSubject.map, s)
  /\ ~isPositionState(fsmSubject.map[s].state)
  /\ fsmSubject.map[s].lastBUYThreshold # Null
  /\ fsmSubject.map[s].ltp # Null
  /\ fsmSubject.map[s].ltp < fsmSubject.map[s].lastBUYThreshold

\* C19: broker-6 buy-sell-sell rearm: once the second SELL after a BUY has been
\* processed for a broker symbol that is out of position with
\* ltp < last_buy_threshold, the threshold of the symbol's FSM is
\* last_buy_threshold, both in the shared snapshot and in the runner (which
\* evaluates the following ticks against it), and the buy_sell_sell flag is clear.
C19_RearmedThresholdStays ==
  [][\A s \in BrokerSymbols : \A payload \in Payloads :
       (Webhook(payload) /\ C19_SecondSellBelowBuyThreshold(s, payload))
       => /\ fsmSubject'.map[s].threshold = fsmSubject.map[s].lastBUYThreshold
          /\ tickState'.fsmByToken[s].threshold = fsmSubject.map[s].lastBUYThreshold
          /\ s \notin inst'.zerodhaPendingBuySellSellBySymbol
          /\ ~zerodhaTracking'[s].buySellSell]_vars

\* payload is a SELL that follows BUY, SELL on symbol s in general mode, and the
\* snapshot of s is NOPOSITION_SIGNAL with ltp < last_buy_threshold
C20_SecondSellInSignalState(s, payload) ==
  /\ payload.symbol = s
  /\ getSignalType(payload.intent, payload.side) = "SELL"
  /\ Get(noneTracking, s, defaultTracking).lastSignal = "SELL"
  /\ Get(noneTracking, s, defaultTracking).sellAfterBuyCount = 1
  /\ Has(fsmSubject.map, s)
  /\ fsmSubject.map[s].state = "NOPOSITION_SIGNAL"
  /\ fsmSubject.map[s].lastBUYThreshold # Null
  /\ fsmSubject.map[s].ltp # Null
  /\ fsmSubject.map[s].ltp < fsmSubject.map[s].lastBUYThreshold

\* C20: in general mode, the second SELL after a BUY (BUY, SELL, SELL) that finds
\* the symbol's snapshot in NOPOSITION_SIGNAL with ltp < last_buy_threshold sets
\* buy_sell_sell on the symbol's row, and a flag that is set stays set on every
\* later row of the symbol.
C20_BuySellSellSetAndSticky ==
  [][\A s \in BrokerSymbols : \A payload \in Payloads :
       Webhook(payload)
       => /\ C20_SecondSellInSignalState(s, payload) => noneTracking'[s].buySellSell
          /\ (payload.symbol = s /\ Get(noneTracking, s, defaultTracking).buySellSell)
               => noneTracking'[s].buySellSell]_vars

\* C21: in general mode a SELL that follows a BUY, or that follows a SELL while
\* sell_after_buy_count is above 0, increments the symbol's sell_after_buy_count
\* and zeroes its buy_after_sell_count, so that BUY followed by n SELLs counts n.
C21_ConsecutiveSellsCounted ==
  [][\A payload \in Payloads :
       LET s == payload.symbol
           tracking == Get(noneTracking, s, defaultTracking)
       IN (/\ Webhook(payload)
           /\ getSignalType(payload.intent, payload.side) = "SELL"
           /\ (tracking.lastSignal = "BUY" \/ tracking.sellAfterBuyCount > 0))
          => /\ noneTracking'[s].sellAfterBuyCount = tracking.sellAfterBuyCount + 1
             /\ noneTracking'[s].buyAfterSellCount = 0]_vars

\* C22: while one webhook is processed, no subscriber of a mode's signal state is
\* called back at a moment when another mode that the webhook changes still holds
\* its state from before the webhook.
C22_NoCallbackBetweenModes ==
  [][\A payload \in TablePayloads :
       Webhook(payload)
       => \A i \in DOMAIN emissions' :
            emissions'[i].to = {} \/ emissions'[i].stale = {}]_vars

\* C23: reduction results are published in write order, so when a handler has
\* returned the trade state reflects the latest write to the shared snapshot: for
\* every symbol of the shared snapshot, the trade state's last snapshot is the
\* shared entry (no result computed from an older snapshot was published last).
C23_TradeStateReflectsLatestWrite ==
  \A s \in DOMAIN fsmSubject.map :
    /\ Has(tradeState.lastSnapshotBySymbol, s)
    /\ tradeState.lastSnapshotBySymbol[s] = fsmSubject.map[s]

\* C24: for every webhook, the signal tracker derives the direction the two
\* runners derive (intent first, then side), and the tracking of the symbol in
\* general mode remembers that direction when there is one.
C24_SameDirectionEverywhere ==
  [][\A payload \in TablePayloads :
       Webhook(payload)
       => LET tracker == getSignalType(normalizeString(payload.intent),
                                       normalizeString(payload.side))
              runner == runnerGetSignalType(payload)
          IN /\ tracker = runner
             /\ runner # "NONE" => noneTracking'[payload.symbol].lastSignal = runner]_vars

\* C25: after a reset of the crypto state no symbol beginning with BTC has an
\* entry in the shared snapshot, in the signal state of any mode (rows, tracking,
\* symbols list), in any map of the trade state or in the counter, pending,
\* block, last-entry-minute and last-live-id maps.
C25_ResetRemovesEveryBtcEntry ==
  [][(DailyReset \/ ResetAll)
     => \A s \in {BtcWebhookSymbol, LongSymbol} :
          /\ ~Has(fsmSubject'.map, s)
          /\ \A f \in DOMAIN tradeState' : ~Has(tradeState'[f], s)
          /\ ~Has(inst'.zerodhaSellCountAfterBuyBySymbol, s)
          /\ s \notin inst'.zerodhaPendingBuySellSellBySymbol
          /\ ~Has(inst'.liveTradeBlockedUntilBySymbol, s)
          /\ ~Has(inst'.lastLiveEntryMinuteBySymbol, s)
          /\ ~Has(inst'.lastLiveTradeIdBySymbol, s)
          /\ \A mode \in ModeSet :
                /\ ~Has(SignalStateOf(mode)'.bySymbol, s)
                /\ ~Has(SignalStateOf(mode)'.fsmBySymbol, s)
                /\ \A i \in DOMAIN SignalStateOf(mode)'.symbols :
                      SignalStateOf(mode)'.symbols[i] # s]_vars

\* C26: a price or tick handler whose update of the shared snapshot changes no
\* entry emits nothing, so it runs no Trade Engine reduction.
C26_UnchangedUpdateEmitsNothing ==
  [][((\E price \in Prices : BinancePrice(price))
      \/ (\E token \in BrokerSymbols, price \in Prices : BrokerTick(token, price)))
     => (fsmSubject' = fsmSubject => hist'.reductions = 0)]_vars

\* the signal states of the five modes
C27_SignalStates == [mode \in ModeSet |-> SignalStateOf(mode)]

\* C27: every step that changes the shared snapshot leaves the FSM save timer
\* pending, and every step that changes a signal state or the trade state leaves
\* the webhook-state save timer pending; a timer is scheduled for 1 s later, is
\* never rescheduled while pending and is cleared only by its own callback at its
\* due time; a save by the callback or on unload leaves the stored document equal
\* to the in-memory state, and a save that throws changes neither the stored
\* document nor the in-memory state.
C27_DebouncedPersistence ==
  [][/\ fsmSubject' # fsmSubject => persist'.fsm.timeout # Null
     /\ (tradeState' # tradeState \/ C27_SignalStates' # C27_SignalStates)
          => persist'.webhook.timeout # Null
     /\ \A service \in DOMAIN persist :
          /\ (persist[service].timeout = Null /\ persist'[service].timeout # Null)
               => persist'[service].timeout = now + PersistDelay /\ now' = now
          /\ persist[service].timeout # Null
               => \/ persist'[service].timeout = persist[service].timeout
                  \/ /\ \E written \in BOOLEAN : PersistTimeout(service, written)
                     /\ persist'[service].timeout = Null
                     /\ now = persist[service].timeout
          /\ \A written \in BOOLEAN :
               (PersistTimeout(service, written) \/ Unload(service, written))
               => /\ fsmSubject' = fsmSubject /\ tradeState' = tradeState
                  /\ C27_SignalStates' = C27_SignalStates
                  /\ IF written
                     THEN /\ persist'[service].stored
                          /\ persist'[service].document = documentOf(service)
                     ELSE /\ persist'[service].stored = persist[service].stored
                          /\ persist'[service].document = persist[service].document]_vars

\* a save threw, a later save of the same store succeeded, and the stored document
\* is the in-memory state with nothing pending
C27_Witness ==
  \E service \in DOMAIN persist :
    /\ persist[service].retried /\ persist[service].stored
    /\ persist[service].timeout = Null /\ now >= PersistDelay
    /\ persist[service].document = documentOf(service)
    /\ fsmSubject.keys # <<>> /\ webhooks > 0

C29_StateHeldByService ==
  [][/\ \A id \in DOMAIN subscriptions' :
          /\ subscriptions'[id].value.bySymbol = signalStateByMode'[subscriptions'[id].mode].bySymbol
          /\ subscriptions'[id].value.symbols = signalStateByMode'[subscriptions'[id].mode].symbols
     /\ \A id \in Subscribers :
          ((\E mode \in ModeSet : Subscribe(id, mode)) \/ Unsubscribe(id))
          => /\ signalStateByMode' = signalStateByMode
             /\ noneTracking' = noneTracking /\ zerodhaTracking' = zerodhaTracking
     /\ \A payload \in TablePayloads :
          (/\ Webhook(payload) /\ payload.symbol = BtcWebhookSymbol
           /\ getSignalType(normalizeString(payload.intent),
                             normalizeString(payload.side)) = "BUY")
          => LET before == Get(signalStateByMode["btc"].bySymbol, BtcWebhookSymbol, <<>>)
                 after == signalStateByMode'["btc"].bySymbol[BtcWebhookSymbol]
             IN /\ Len(after) = Len(before) + 1
                /\ after[1].intent = normalizeString(payload.intent)
                /\ SubSeq(after, 2, Len(after)) = before
                /\ Cardinality({i \in DOMAIN signalStateByMode'["btc"].symbols :
                                  signalStateByMode'["btc"].symbols[i] = BtcWebhookSymbol}) = 1]_vars

\* a consumer that subscribed to mode btc after two BTCUSDT webhooks holds both
\* rows
C29_Witness ==
  \E id \in DOMAIN subscriptions :
    /\ subscriptions[id].mode = "btc" /\ subscriptions[id].since = TableMaxWebhooks
    /\ subscriptions[id].value.symbols = <<BtcWebhookSymbol>>
    /\ Len(subscriptions[id].value.bySymbol[BtcWebhookSymbol]) = 2

\* C30: in every mode, the rows of a symbol are newest first and at most 50; a
\* webhook the mode accepts puts its row at the head and keeps the newest 49 of
\* the rows before it (the 51st drops the oldest); and the symbols list holds
\* exactly the symbols that have a row, each once.
C30_RowsNewestFirstAndCapped ==
  [][/\ \A mode \in ModeSet :
          LET state == signalStateByMode'[mode]
          IN /\ \A s \in DOMAIN state.bySymbol :
                  /\ Len(state.bySymbol[s]) >= 1 /\ Len(state.bySymbol[s]) <= 50
                  /\ \A i \in 1..(Len(state.bySymbol[s]) - 1) :
                       state.bySymbol[s][i].seq > state.bySymbol[s][i + 1].seq
             /\ {state.symbols[i] : i \in DOMAIN state.symbols} = DOMAIN state.bySymbol
             /\ \A i, j \in DOMAIN state.symbols :
                  state.symbols[i] = state.symbols[j] => i = j
     /\ \A payload \in RowCapPayloads, mode \in ModeSet :
          (Webhook(payload) /\ acceptsWebhook(mode, payload))
          => LET key == mapSymbolForMode(payload.symbol, mode)
                 before == Get(signalStateByMode[mode].bySymbol, key, <<>>)
                 after == signalStateByMode'[mode].bySymbol[key]
                 kept == IF Len(before) < 50 THEN Len(before) ELSE 49
             IN /\ Len(after) = kept + 1
                /\ after[1].seq = webhooks'
                /\ SubSeq(after, 2, kept + 1) = SubSeq(before, 1, kept)]_vars

\* after 52 webhooks for one symbol its list holds the rows of webhooks 52 down
\* to 3
C30_Witness ==
  \E mode \in ModeSet :
    \E s \in DOMAIN signalStateByMode[mode].bySymbol :
      /\ Len(signalStateByMode[mode].bySymbol[s]) = 50
      /\ signalStateByMode[mode].bySymbol[s][1].seq = 52
      /\ signalStateByMode[mode].bySymbol[s][50].seq = 3

\* C31: for every runner and symbol, in every reachable state, a
\* last_checked_at_ms that is not null is >= last_signal_at_ms.
C31_CheckedNotBeforeSignal ==
  \A f \in C12_Fsms :
    f.lastCheckedAtMs # Null => f.lastCheckedAtMs >= f.lastSignalAtMs

\* C32: for every runner and symbol, in every reachable state, an FSM in
\* NOPOSITION_BLOCKED has a last_blocked_at_ms that is not null.
C32_BlockedHasBlockTime ==
  \A f \in C12_Fsms :
    f.state = "NOPOSITION_BLOCKED" => f.lastBlockedAtMs # Null

\* C40: after a reload in which the long runner restores its state from the
\* shared snapshot, ticks are evaluated without a new webhook: a Binance price
\* below the threshold takes a long runner in BUYPOSITION to NOPOSITION_BLOCKED,
\* and a restored NOPOSITION_BLOCKED is checked again by a price in the first
\* second of a minute after the minute of the reload.
C40_RestoredStateEvaluated ==
  [][\A price \in RestartPrices :
       BinancePrice(price) =>
         /\ (/\ longFsm.state = "BUYPOSITION"
             /\ longFsm.threshold # Null
             /\ price < longFsm.threshold)
            => longFsm'.state = "NOPOSITION_BLOCKED"
         /\ (/\ longFsm.state = "NOPOSITION_BLOCKED"
             /\ longFsm.threshold # Null
             /\ longFsm.lastSignalAtMs = Null
             /\ hist.restartedAt # Null
             /\ SecondsOf(now) = 0
             /\ MinuteOf(now) > MinuteOf(hist.restartedAt))
            => longFsm'.lastCheckedAtMs = now]_vars

\* C33: on every Binance price handled by the long runner whose FSM has a
\* threshold and a signal time: from NOPOSITION_SIGNAL, ltp > threshold gives
\* BUYPOSITION and ltp <= threshold gives NOPOSITION_BLOCKED with
\* last_blocked_at_ms = now; from BUYPOSITION, ltp >= threshold leaves the FSM
\* as it is and ltp < threshold gives NOPOSITION_BLOCKED with last_blocked_at_ms
\* = now.
C33_LongTickTable ==
  [][\A price \in LongPrices :
       (BinancePrice(price) /\ longFsm.threshold # Null /\ longFsm.lastSignalAtMs # Null) =>
         /\ (longFsm.state = "NOPOSITION_SIGNAL" /\ price > longFsm.threshold)
            => longFsm' = [longFsm EXCEPT !.state = "BUYPOSITION", !.lastCheckedAtMs = now]
         /\ (longFsm.state = "NOPOSITION_SIGNAL" /\ price <= longFsm.threshold)
            => longFsm' = [longFsm EXCEPT !.state = "NOPOSITION_BLOCKED",
                                          !.lastCheckedAtMs = now, !.lastBlockedAtMs = now]
         /\ (longFsm.state = "BUYPOSITION" /\ price >= longFsm.threshold)
            => longFsm' = longFsm
         /\ (longFsm.state = "BUYPOSITION" /\ price < longFsm.threshold)
            => longFsm' = [longFsm EXCEPT !.state = "NOPOSITION_BLOCKED",
                                          !.lastCheckedAtMs = now, !.lastBlockedAtMs = now]]_vars

\* the long runner has stayed in its position on a price equal to the threshold
C33_Witness ==
  /\ longFsm.state = "BUYPOSITION"
  /\ longLastLtp = longFsm.threshold

\* the step opens or closes no paper trade and no live trade of the symbol and
\* sends no order
C34_NoTradeAction(symbol) ==
  /\ Has(tradeState'.openBySymbol, symbol) = Has(tradeState.openBySymbol, symbol)
  /\ Has(tradeState'.liveOpenBySymbol, symbol) = Has(tradeState.liveOpenBySymbol, symbol)
  /\ hist'.paperOpens[symbol] = hist.paperOpens[symbol]
  /\ hist'.liveCloses[symbol] = hist.liveCloses[symbol]
  /\ sink' = <<>>

\* C34: a tick for a symbol whose FSM has no threshold or no signal time leaves
\* the FSM of the symbol unchanged and opens or closes no paper or live trade.
C34_TickWithoutPreconditionsIsNoOp ==
  [][/\ \A price \in Prices :
          (BinancePrice(price) /\ (longFsm.threshold = Null \/ longFsm.lastSignalAtMs = Null))
          => (longFsm' = longFsm /\ C34_NoTradeAction(LongSymbol))
     /\ \A token \in BrokerSymbols, price \in Prices :
          (/\ BrokerTick(token, price)
           /\ \/ Get(tickState.fsmByToken, token, defaultFsm).threshold = Null
              \/ Get(tickState.fsmByToken, token, defaultFsm).lastSignalAtMs = Null)
          => (/\ tickState'.fsmByToken[token] = Get(tickState.fsmByToken, token, defaultFsm)
              /\ C34_NoTradeAction(token))]_vars

\* the broker runner's snapshot after the same tick once and twice
C35_Once(token, price) == reduceTick(tickState, token, price, now)

C35_Twice(token, price) == reduceTick(C35_Once(token, price), token, price, now)

C35_TickTwiceIsTickOnce ==
  /\ \A token \in BrokerSymbols, price \in Prices :
       C35_Once(token, price).fsmByToken[token].state
         = Get(tickState.fsmByToken, token, defaultFsm).state
       => buildFsmSnapshot(C35_Twice(token, price)) = buildFsmSnapshot(C35_Once(token, price))
  /\ \A price \in Prices :
       applyTickTransition(longFsm, price, now).state = longFsm.state
       => longSnapshot(applyTickTransition(applyTickTransition(longFsm, price, now), price, now),
                       price)
          = longSnapshot(applyTickTransition(longFsm, price, now), price)

\* the entry of a symbol in the snapshot its runner publishes, before and after
\* a step
C35_Entry(symbol) ==
  IF symbol = LongSymbol THEN longSnapshot(longFsm, longLastLtp).map[LongSymbol]
  ELSE buildFsmSnapshot(tickState).map[symbol]

C35_NextEntry(symbol) ==
  IF symbol = LongSymbol THEN longSnapshot(longFsm', longLastLtp').map[LongSymbol]
  ELSE buildFsmSnapshot(tickState').map[symbol]

\* C35 as stated: a tick that leaves the state of the FSM as it was makes the
\* runner publish the snapshot entry of the symbol with nothing but ltp changed,
\* and the same tick applied twice publishes what it publishes applied once.
C35_OnlyLtpChanges ==
  [][/\ C35_TickTwiceIsTickOnce
     /\ \A price \in Prices :
          (BinancePrice(price) /\ longFsm'.state = longFsm.state)
          => C35_NextEntry(LongSymbol) = [C35_Entry(LongSymbol) EXCEPT !.ltp = price]
     /\ \A token \in BrokerSymbols, price \in Prices :
          (/\ BrokerTick(token, price)
           /\ Has(tickState.fsmByToken, token)
           /\ tickState'.fsmByToken[token].state = tickState.fsmByToken[token].state)
          => C35_NextEntry(token) = [C35_Entry(token) EXCEPT !.ltp = price]]_vars

\* C35 (amended): a tick that leaves the state of the FSM as it was makes the
\* runner publish the snapshot entry of the symbol with nothing but ltp changed,
\* except that the broker runner's re-evaluation of a blocked FSM at the first
\* second of a later minute, when it blocks again, also moves last_blocked_at_ms
\* to the time of the tick; the same tick applied twice publishes what it
\* publishes applied once.
C35_OnlyLtpAndBlockTimeChange ==
  [][/\ C35_TickTwiceIsTickOnce
     /\ \A price \in Prices :
          (BinancePrice(price) /\ longFsm'.state = longFsm.state)
          => C35_NextEntry(LongSymbol) = [C35_Entry(LongSymbol) EXCEPT !.ltp = price]
     /\ \A token \in BrokerSymbols, price \in Prices :
          (/\ BrokerTick(token, price)
           /\ Has(tickState.fsmByToken, token)
           /\ tickState'.fsmByToken[token].state = tickState.fsmByToken[token].state)
          => C35_NextEntry(token) =
               [C35_Entry(token) EXCEPT
                  !.ltp = price,
                  !.lastBlockedAtMs =
                     IF /\ tickState.fsmByToken[token].state = "NOPOSITION_BLOCKED"
                        /\ tickState.fsmByToken[token].threshold # Null
                        /\ tickState.fsmByToken[token].lastSignalAtMs # Null
                        /\ isFirstSecondNextMinute(tickState.fsmByToken[token].lastBlockedAtMs,
                                                   now)
                     THEN now ELSE @]]_vars

\* the broker runner has re-evaluated a blocked FSM in a later minute and blocked
\* it again
C35_Witness ==
  /\ Has(tickState.fsmByToken, "NIFTY")
  /\ tickState.fsmByToken["NIFTY"].state = "NOPOSITION_BLOCKED"
  /\ tickState.fsmByToken["NIFTY"].lastBlockedAtMs = MsPerMinute
  /\ Has(fsmSubject.map, "NIFTY")
  /\ fsmSubject.map["NIFTY"].lastBlockedAtMs = MsPerMinute
  /\ \E i \in DOMAIN hist.events : hist.events[i].type = "RECHECK"

\* C36: when the reduction of a broker tick applies the pending buy-sell-sell
\* rearm of a symbol, the trade state published at the end of the handler has the
\* paper cumulative P&L of the symbol at 0, and the pending mark and the
\* sell-after-buy counter of the symbol are cleared.
C36_RearmResetsCumulative ==
  [][\A token \in BrokerSymbols, price \in Prices :
       (/\ BrokerTick(token, price)
        /\ token \in inst.zerodhaPendingBuySellSellBySymbol
        /\ \E i \in DOMAIN hist'.events :
             /\ hist'.events[i].type = "REARM"
             /\ hist'.events[i].symbol = token
             /\ hist'.events[i].depth = 0)
       => /\ Get(tradeState'.cumulativeBySymbol, token, 0) = 0
          /\ token \notin inst'.zerodhaPendingBuySellSellBySymbol
          /\ Get(inst'.zerodhaSellCountAfterBuyBySymbol, token, 0) = 0]_vars

\* C37: the orders a handler has sent match the live trades of the trade state
\* it has published: no order is sent twice for the same live trade (one CLOSE
\* per close), and every OPEN order belongs to a live trade that has a row in
\* the published trade state.
C37_OrdersMatchLiveTrades ==
  /\ \A i, j \in DOMAIN sink :
       (/\ i # j
        /\ sink[i].symbol = sink[j].symbol
        /\ sink[i].id = sink[j].id)
       => sink[i].action # sink[j].action
  /\ \A i \in DOMAIN sink :
       sink[i].action = "OPEN"
       => \E k \in DOMAIN Get(tradeState.liveTradesBySymbol, sink[i].symbol, <<>>) :
            tradeState.liveTradesBySymbol[sink[i].symbol][k].id = sink[i].id

\* C38: handling one event ends after a bounded number of reductions: the rearm
\* write made from inside a reduction runs one nested reduction and that one
\* makes no further rearm write, so nothing runs deeper than one level, a symbol
\* is rearmed at most once by a handler, and a handler runs at most two
\* reductions (the one of its publication and the nested one, or the one of the
\* tracker's write and the one of the runner's publication).
C38_NestingBounded ==
  /\ \A i \in DOMAIN hist.events : hist.events[i].depth <= 1
  /\ \A i, j \in DOMAIN hist.events :
       (/\ hist.events[i].type = "REARM" /\ hist.events[j].type = "REARM"
        /\ hist.events[i].symbol = hist.events[j].symbol)
       => i = j
  /\ hist.reductions <= 2

\* a handler has applied a rearm whose nested reduction did something
C38_Witness ==
  /\ \E i \in DOMAIN hist.events : hist.events[i].type = "REARM"
  /\ \E i \in DOMAIN hist.events : hist.events[i].depth = 1
  /\ hist.reductions >= 2

\* C39: after the daily reset, while no webhook has arrived (none does after the
\* reset in ResetSpec), no paper trade and no live trade is open for a crypto
\* symbol: prices alone open no trade.
C39_NoTradeAfterResetWithoutSignal ==
  resets = 1
  => \A s \in {BtcWebhookSymbol, LongSymbol} :
       /\ ~Has(tradeState.openBySymbol, s)
       /\ ~Has(tradeState.liveOpenBySymbol, s)
====
